---------------------------- MODULE Spec2Model ----------------------------
(***************************************************************************)
(* Smart Memo backend: the users / voice_memos1 / helperApp tables and the *)
(* HTTP handlers of UserApi (src/src/api/user.rs), MemoApi                 *)
(* (src/src/api/memo.rs) and Api (src/src/api/memo_api_store_ops.rs) as a  *)
(* state machine.  One action per handler; where the interleaving of       *)
(* requests is in question, one action per database round trip.            *)
(*                                                                         *)
(* Conventions                                                             *)
(*   - a Rust String is a sequence of one-character strings;               *)
(*   - Option<T> is a sequence of length 0 (None) or 1 (Some(x));          *)
(*   - a Uuid is a natural number of a small id space; its textual forms   *)
(*     are tuples <<format, uuid>>;                                        *)
(*   - a table is a set of rows (records), the schema's constraints are    *)
(*     enforced by the insert operators.                                   *)
(***************************************************************************)
EXTENDS Integers, Sequences, FiniteSets, TLC

VARIABLES
    users,          \* table users
    voice_memos1,   \* table voice_memos1
    helper_app,     \* table helperApp
    last,           \* the request served last and its response
    pending         \* the requests a handler has started and not finished

vars == <<users, voice_memos1, helper_app, last, pending>>

---------------------------------------------------------------------------
(* Bounds of the model *)

\* size of the Uuid space Uuid::new_v4() draws from
NumUuids == 2

Uuids == 1..NumUuids

---------------------------------------------------------------------------
(* Option<T> *)

None == <<>>
Some(x) == <<x>>
IsSome(o) == o # <<>>
Unwrap(o) == o[1]

---------------------------------------------------------------------------
(* Strings *)

Str(c) == <<c>>
EmptyString == <<>>

Whitespace == {" "}

\* str::trim: leading and trailing whitespace removed
RECURSIVE TrimStart(_)
TrimStart(s) ==
    IF s # <<>> /\ Head(s) \in Whitespace THEN TrimStart(Tail(s)) ELSE s

RECURSIVE TrimEnd(_)
TrimEnd(s) ==
    IF s # <<>> /\ s[Len(s)] \in Whitespace
    THEN TrimEnd(SubSeq(s, 1, Len(s) - 1))
    ELSE s

Trim(s) == TrimEnd(TrimStart(s))

\* is_empty() without the trim
IsEmptyUntrimmed(s) == s = <<>>

\* s.trim().is_empty()
IsBlank(s) == Trim(s) = <<>>

RECURSIVE Repeat(_, _)
Repeat(c, n) == IF n = 0 THEN <<>> ELSE <<c>> \o Repeat(c, n - 1)

---------------------------------------------------------------------------
(* Uuid and its textual forms *)

\* Uuid::to_string: lower-case hyphenated
UuidToString(u) == <<"hyphenated", u>>

\* forms Uuid::parse_str accepts besides the one to_string prints
UuidFormats == {"hyphenated", "HYPHENATED"}

NotAUuid == <<"not-a-uuid">>

\* Uuid::parse_str: Some(uuid), or None for an Err
ParseUuid(s) ==
    IF Len(s) = 2 /\ s[1] \in UuidFormats THEN Some(s[2]) ELSE None

UuidStrings == {<<f, u>> : f \in UuidFormats, u \in Uuids}
IdStrings == UuidStrings \cup {NotAUuid}

---------------------------------------------------------------------------
(* serde_json over Vec<String> *)

RECURSIVE JsonEscape(_)
JsonEscape(s) ==
    IF s = <<>> THEN <<>>
    ELSE (IF Head(s) \in {"\"", "\\"} THEN <<"\\", Head(s)>> ELSE <<Head(s)>>)
         \o JsonEscape(Tail(s))

JsonQuote(s) == <<"\"">> \o JsonEscape(s) \o <<"\"">>

RECURSIVE JsonJoin(_)
JsonJoin(v) ==
    IF v = <<>> THEN <<>>
    ELSE JsonQuote(Head(v))
         \o (IF Tail(v) = <<>> THEN <<>> ELSE <<",">> \o JsonJoin(Tail(v)))

\* serde_json::to_string(&Vec<String>).ok()
serde_json_to_string(v) == Some(<<"[">> \o JsonJoin(v) \o <<"]">>)

\* the characters of a JSON string literal, from just after its opening quote:
\* [ok, val, rest]
RECURSIVE JsonStringBody(_, _)
JsonStringBody(s, acc) ==
    IF s = <<>> THEN [ok |-> FALSE, val |-> <<>>, rest |-> <<>>]
    ELSE IF Head(s) = "\"" THEN [ok |-> TRUE, val |-> acc, rest |-> Tail(s)]
    ELSE IF Head(s) = "\\"
         THEN IF Len(s) >= 2 /\ s[2] \in {"\"", "\\"}
              THEN JsonStringBody(SubSeq(s, 3, Len(s)), Append(acc, s[2]))
              ELSE [ok |-> FALSE, val |-> <<>>, rest |-> <<>>]
    ELSE JsonStringBody(Tail(s), Append(acc, Head(s)))

\* the elements of a JSON array of strings, from just after "[" or ",":
\* Some(vector) or None
RECURSIVE JsonElements(_, _)
JsonElements(s, acc) ==
    LET t == TrimStart(s) IN
    IF t = <<>> \/ Head(t) # "\"" THEN None
    ELSE LET r == JsonStringBody(Tail(t), <<>>)
             u == TrimStart(r.rest)
         IN  IF ~r.ok \/ u = <<>> THEN None
             ELSE IF Head(u) = "]"
                  THEN (IF IsBlank(Tail(u)) THEN Some(Append(acc, r.val)) ELSE None)
             ELSE IF Head(u) = ","
                  THEN JsonElements(Tail(u), Append(acc, r.val))
             ELSE None

\* serde_json::from_str::<Vec<String>>(..).ok()
serde_json_from_str(s) ==
    LET t == TrimStart(s) IN
    IF t = <<>> \/ Head(t) # "[" THEN None
    ELSE LET u == TrimStart(Tail(t)) IN
         IF u # <<>> /\ Head(u) = "]"
         THEN (IF IsBlank(Tail(u)) THEN Some(<<>>) ELSE None)
         ELSE JsonElements(u, <<>>)

---------------------------------------------------------------------------
(* Token codec: jsonwebtoken encode / decode with HS256 *)

JWT_SECRET == "point"

\* Duration::hours(24), in seconds
TokenTtl == 86400

\* Validation::new(..).leeway, in seconds
Leeway == 60

\* user.rs login: the token issued to a user row at clock reading t
IssueToken(user, t) ==
    [sub      |-> UuidToString(user.id),
     username |-> user.username,
     email    |-> user.email,
     exp      |-> t + TokenTtl,
     key      |-> "point"]

\* validate_token without the check of exp
validate_token_any_exp(token, t) ==
    IF token.key = JWT_SECRET
    THEN Some([sub |-> token.sub, email |-> token.email, exp |-> token.exp])
    ELSE None

\* decode::<Claims>: Some(claims) when the signature was made with JWT_SECRET
\* and exp is not past, None for the Err
validate_token(token, t) ==
    IF token.key = JWT_SECRET /\ token.exp >= t - Leeway
    THEN Some([sub |-> token.sub, email |-> token.email, exp |-> token.exp])
    ELSE None

InvalidTokenMsg == <<"Invalid or expired token">>

---------------------------------------------------------------------------
(* Password hashing: bcrypt *)

hash(password, salt) == <<"bcrypt", salt, password>>

verify(password, hashed) ==
    Len(hashed) = 3 /\ hashed[1] = "bcrypt" /\ hashed[3] = password

---------------------------------------------------------------------------
(* The relational store.  A statement's result is [ok, table, ...]. *)

DbOk(table) == [ok |-> TRUE, table |-> table]
DbErr(table) == [ok |-> FALSE, table |-> table]

\* Entity::find_by_id(id).one(db): Option<Model>
FindById(table, id) ==
    LET found == {r \in table : r.id = id}
    IN  IF found = {} THEN None ELSE Some(CHOOSE r \in found : TRUE)

\* FindByIdAndUser without the owner filter
FindByIdAnyUser(table, id, user_id) ==
    LET found == {r \in table : r.id = id}
    IN  IF found = {} THEN None ELSE Some(CHOOSE r \in found : TRUE)

\* Entity::find_by_id(id).filter(Column::UserId.eq(user_id)).one(db)
FindByIdAndUser(table, id, user_id) ==
    LET found == {r \in table : r.id = id /\ r.user_id = user_id}
    IN  IF found = {} THEN None ELSE Some(CHOOSE r \in found : TRUE)

\* Users::find().filter(Column::Email.eq(email)).one(db)
FindUserByEmail(table, email) ==
    LET found == {r \in table : r.email = email}
    IN  IF found = {} THEN None ELSE Some(CHOOSE r \in found : TRUE)

\* InsertUser without the unique key of email
InsertUserNoUniqueEmail(table, row) ==
    IF \E r \in table : r.id = row.id
    THEN DbErr(table)
    ELSE DbOk(table \cup {row})

\* INSERT INTO users: id is the primary key, email has a unique key
InsertUser(table, row) ==
    IF \E r \in table : r.id = row.id \/ r.email = row.email
    THEN DbErr(table)
    ELSE DbOk(table \cup {row})

\* InsertMemo without the primary key
InsertMemoNoKey(table, userTable, row) ==
    IF ~(\E u \in userTable : u.id = row.user_id)
    THEN DbErr(table)
    ELSE DbOk(table \cup {row})

\* INSERT INTO voice_memos1: id is the primary key, user_id references users
InsertMemo(table, userTable, row) ==
    IF (\E r \in table : r.id = row.id) \/ ~(\E u \in userTable : u.id = row.user_id)
    THEN DbErr(table)
    ELSE DbOk(table \cup {row})

\* ActiveValue: Set(v) or unchanged
Set(v) == <<v>>
NotSet == <<>>

\* the row an ActiveModel writes over row r: the columns that are Set
ApplyActiveModel(r, am) ==
    [c \in DOMAIN r |-> IF c \in DOMAIN am /\ am[c] # NotSet THEN am[c][1] ELSE r[c]]

\* ActiveModel::update: UPDATE .. SET <set columns> WHERE id = <primary key>
UpdateById(table, id, am) ==
    LET found == {r \in table : r.id = id}
    IN  IF found = {} THEN DbErr(table)
        ELSE DbOk((table \ found) \cup {ApplyActiveModel(r, am) : r \in found})

\* voice_memos1::Entity::delete_many().filter(Id.eq(id)).filter(UserId.eq(user_id))
DeleteMemoByIdAndUser(table, id, user_id) ==
    LET hit == {r \in table : r.id = id /\ r.user_id = user_id}
    IN  [ok |-> TRUE, table |-> table \ hit, rows_affected |-> Cardinality(hit)]

\* DeleteMemosByUser without the filter
DeleteMemosOfAllUsers(table, user_id) ==
    [ok |-> TRUE, table |-> {}, rows_affected |-> Cardinality(table)]

\* voice_memos1::Entity::delete_many().filter(UserId.eq(user_id))
DeleteMemosByUser(table, user_id) ==
    LET hit == {r \in table : r.user_id = user_id}
    IN  [ok |-> TRUE, table |-> table \ hit, rows_affected |-> Cardinality(hit)]

\* the orders in which a SELECT without ORDER BY may return a set of rows
RECURSIVE Orderings(_)
Orderings(S) ==
    IF S = {} THEN {<<>>}
    ELSE UNION {{<<r>> \o rest : rest \in Orderings(S \ {r})} : r \in S}

\* FindAllByUser without the filter
FindAllOfAllUsers(table, user_id) == Orderings(table)

\* voice_memos1::Entity::find().filter(UserId.eq(user_id)).all(db)
FindAllByUser(table, user_id) == Orderings({r \in table : r.user_id = user_id})

---------------------------------------------------------------------------
(* MemoApi (src/src/api/memo.rs).  A handler is an operator from the tables *)
(* and the request to [resp, memos]: the response and the voice_memos1      *)
(* table it leaves.                                                         *)

\* Json(MemoResponse { message, memo_id })
MemoResponse(message, memo_id) == [message |-> message, memo_id |-> memo_id]

Outcome(resp, memos) == [resp |-> resp, memos |-> memos]

\* chrono NaiveDateTime::to_string
NaiveDateTimeToString(t) == <<"datetime", t>>

\* MemoOutput { .. } built from a voice_memos1 row
MemoOutput(memo) ==
    [id         |-> UuidToString(memo.id),
     title      |-> memo.title,
     transcript |-> memo.transcript,
     translate  |-> memo.translate,
     summary    |-> memo.summary,
     tags       |-> IF IsSome(memo.tags) THEN serde_json_from_str(Unwrap(memo.tags)) ELSE None,
     duration   |-> memo.duration,
     created_at |-> NaiveDateTimeToString(memo.created_at),
     audio_blob |-> memo.audio_blob]

\* clean_field_opt keeping the value whatever it is
clean_field_opt_kept(val) == val

\* save_memo's clean_field: Option<String> -> Option<String>
clean_field_opt(val) ==
    IF IsSome(val) /\ ~IsBlank(Unwrap(val)) THEN val ELSE None

\* clean_field keeping the string whatever it is
clean_field_kept(val) == Some(val)

\* update_memo's clean_field: String -> Option<String>
clean_field(val) == IF IsBlank(val) THEN None ELSE Some(val)

\* payload.tags.as_ref().and_then(|v| serde_json::to_string(v).ok())
tags_json_string(payload) ==
    IF IsSome(payload.tags) THEN serde_json_to_string(Unwrap(payload.tags)) ELSE None

\* SaveMemoUpdateModel setting audio_blob to the payload's, absent or not
SaveMemoUpdateModelBlobSet(payload) ==
    [title      |-> Set(payload.title),
     transcript |-> Set(clean_field_opt(payload.transcript)),
     translate  |-> Set(clean_field_opt(payload.translate)),
     summary    |-> Set(clean_field_opt(payload.summary)),
     tags       |-> Set(tags_json_string(payload)),
     duration   |-> Set(payload.duration),
     audio_blob |-> Set(payload.audio_blob)]

\* save_memo, UPDATE FLOW: the ActiveModel written over the existing row
SaveMemoUpdateModel(payload) ==
    [title      |-> Set(payload.title),
     transcript |-> Set(clean_field_opt(payload.transcript)),
     translate  |-> Set(clean_field_opt(payload.translate)),
     summary    |-> Set(clean_field_opt(payload.summary)),
     tags       |-> Set(tags_json_string(payload)),
     duration   |-> Set(payload.duration),
     audio_blob |-> IF IsSome(payload.audio_blob) THEN Set(payload.audio_blob) ELSE NotSet]

\* SaveMemoNewRow keeping the id the payload supplies when it is a Uuid
SaveMemoNewRowSuppliedId(payload, user_id, new_v4, now) ==
    [id         |-> IF IsSome(payload.id) /\ IsSome(ParseUuid(Unwrap(payload.id)))
                    THEN Unwrap(ParseUuid(Unwrap(payload.id))) ELSE new_v4,
     user_id    |-> user_id,
     title      |-> payload.title,
     audio_blob |-> payload.audio_blob,
     transcript |-> clean_field_opt(payload.transcript),
     translate  |-> clean_field_opt(payload.translate),
     summary    |-> clean_field_opt(payload.summary),
     tags       |-> tags_json_string(payload),
     duration   |-> payload.duration,
     created_at |-> now]

\* save_memo, INSERT FLOW: the row inserted
SaveMemoNewRow(payload, user_id, new_v4, now) ==
    [id         |-> new_v4,
     user_id    |-> user_id,
     title      |-> payload.title,
     audio_blob |-> payload.audio_blob,
     transcript |-> clean_field_opt(payload.transcript),
     translate  |-> clean_field_opt(payload.translate),
     summary    |-> clean_field_opt(payload.summary),
     tags       |-> tags_json_string(payload),
     duration   |-> payload.duration,
     created_at |-> now]

\* the memo the payload's id resolves to: Some(row) when the id is given, parses
\* as a Uuid and a row has it
SaveMemoExisting(memos, payload) ==
    LET memo_uuid == IF IsSome(payload.id) THEN ParseUuid(Unwrap(payload.id)) ELSE None
    IN  IF IsSome(memo_uuid) THEN FindById(memos, Unwrap(memo_uuid)) ELSE None

\* SaveMemoStore without the ownership check of the UPDATE FLOW
SaveMemoStoreAnyOwner(userTable, memos, user_id, payload, new_v4, now) ==
    LET existing == SaveMemoExisting(memos, payload) IN
    IF IsSome(existing)
    THEN LET res == UpdateById(memos, Unwrap(existing).id, SaveMemoUpdateModel(payload))
         IN  IF res.ok
             THEN Outcome(MemoResponse(<<"Memo updated">>,
                                       UuidToString(Unwrap(existing).id)), res.table)
             ELSE Outcome(MemoResponse(<<"Update failed">>, EmptyString), memos)
    ELSE LET res == InsertMemo(memos, userTable,
                               SaveMemoNewRow(payload, user_id, new_v4, now))
         IN  IF res.ok
             THEN Outcome(MemoResponse(<<"Memo saved">>, UuidToString(new_v4)), res.table)
             ELSE Outcome(MemoResponse(<<"Save failed">>, EmptyString), memos)

\* save_memo after the lookup of the payload's id, existing being the row it
\* read: the UPDATE FLOW written on the memo of that id as it is stored by
\* then, or the INSERT FLOW
SaveMemoWrite(userTable, memos, user_id, existing, payload, new_v4, now) ==
    IF IsSome(existing)
    THEN IF Unwrap(existing).user_id # user_id
         THEN Outcome(MemoResponse(<<"Unauthorized">>, EmptyString), memos)
         ELSE LET res == UpdateById(memos, Unwrap(existing).id, SaveMemoUpdateModel(payload))
              IN  IF res.ok
                  THEN Outcome(MemoResponse(<<"Memo updated">>,
                                            UuidToString(Unwrap(existing).id)), res.table)
                  ELSE Outcome(MemoResponse(<<"Update failed">>, EmptyString), memos)
    ELSE LET res == InsertMemo(memos, userTable,
                               SaveMemoNewRow(payload, user_id, new_v4, now))
         IN  IF res.ok
             THEN Outcome(MemoResponse(<<"Memo saved">>, UuidToString(new_v4)), res.table)
             ELSE Outcome(MemoResponse(<<"Save failed">>, EmptyString), memos)

\* save_memo past the token, user and validation checks
SaveMemoStore(userTable, memos, user_id, payload, new_v4, now) ==
    SaveMemoWrite(userTable, memos, user_id, SaveMemoExisting(memos, payload), payload,
                  new_v4, now)

\* POST /save_memo
save_memo(userTable, memos, token, payload, new_v4, now) ==
    LET claims == validate_token(token, now) IN
    IF claims = None
    THEN Outcome(MemoResponse(InvalidTokenMsg, EmptyString), memos)
    ELSE
    LET user_id == ParseUuid(Unwrap(claims).sub) IN
    IF user_id = None
    THEN Outcome(MemoResponse(<<"Invalid user ID format">>, EmptyString), memos)
    ELSE IF FindById(userTable, Unwrap(user_id)) = None
    THEN Outcome(MemoResponse(<<"User {} not found", Unwrap(user_id)>>, EmptyString), memos)
    ELSE IF IsBlank(payload.title) \/ IsBlank(payload.duration)
    THEN Outcome(MemoResponse(<<"Title and duration are required">>, EmptyString), memos)
    ELSE SaveMemoStore(userTable, memos, Unwrap(user_id), payload, new_v4, now)

\* GET /get_memos: the responses the handler may give, one for each order in
\* which the store may return the rows
get_memos(memos, token, now) ==
    LET claims == validate_token(token, now) IN
    IF claims = None THEN {<<>>}
    ELSE
    LET user_id == ParseUuid(Unwrap(claims).sub) IN
    IF user_id = None THEN {<<>>}
    ELSE {[i \in 1..Len(ms) |-> MemoOutput(ms[i])] :
             ms \in FindAllByUser(memos, Unwrap(user_id))}

\* Result<Json<MemoOutput>>: the status, the error message and the body
MemoResult(status, message, memo) ==
    [status |-> status, message |-> message, memo |-> memo]

\* get_memo_by_id answering 403 for a memo of another user
get_memo_by_id_forbidden(memos, token, memo_id, now) ==
    LET claims == validate_token(token, now) IN
    IF claims = None THEN MemoResult(401, InvalidTokenMsg, None)
    ELSE
    LET user_id == ParseUuid(Unwrap(claims).sub)
        memo_uuid == ParseUuid(memo_id)
    IN
    IF user_id = None THEN MemoResult(400, <<"invalid uuid">>, None)
    ELSE IF memo_uuid = None THEN MemoResult(400, <<"invalid uuid">>, None)
    ELSE
    LET memo == FindById(memos, Unwrap(memo_uuid)) IN
    IF memo = None
    THEN MemoResult(404, <<"Memo not found or access denied">>, None)
    ELSE IF Unwrap(memo).user_id # Unwrap(user_id)
    THEN MemoResult(403, <<"Forbidden">>, None)
    ELSE MemoResult(200, <<>>, Some(MemoOutput(Unwrap(memo))))

\* GET /get_memo/:memo_id
get_memo_by_id(memos, token, memo_id, now) ==
    LET claims == validate_token(token, now) IN
    IF claims = None THEN MemoResult(401, InvalidTokenMsg, None)
    ELSE
    LET user_id == ParseUuid(Unwrap(claims).sub)
        memo_uuid == ParseUuid(memo_id)
    IN
    IF user_id = None THEN MemoResult(400, <<"invalid uuid">>, None)
    ELSE IF memo_uuid = None THEN MemoResult(400, <<"invalid uuid">>, None)
    ELSE
    LET memo == FindByIdAndUser(memos, Unwrap(memo_uuid), Unwrap(user_id)) IN
    IF memo = None
    THEN MemoResult(404, <<"Memo not found or access denied">>, None)
    ELSE MemoResult(200, <<>>, Some(MemoOutput(Unwrap(memo))))

\* UpdateMemoModel storing NULL in the optional fields the payload leaves out
UpdateMemoModelNulling(payload) ==
    [title      |-> IF IsSome(payload.title) /\ ~IsBlank(Unwrap(payload.title))
                    THEN Set(Unwrap(payload.title)) ELSE NotSet,
     transcript |-> IF IsSome(payload.transcript)
                    THEN Set(clean_field(Unwrap(payload.transcript))) ELSE Set(None),
     translate  |-> IF IsSome(payload.translate)
                    THEN Set(clean_field(Unwrap(payload.translate))) ELSE Set(None),
     summary    |-> IF IsSome(payload.summary)
                    THEN Set(clean_field(Unwrap(payload.summary))) ELSE Set(None),
     tags       |-> IF IsSome(payload.tags)
                    THEN Set(serde_json_to_string(Unwrap(payload.tags))) ELSE Set(None)]

\* update_memo: the ActiveModel built from the partial payload
UpdateMemoModel(payload) ==
    [title      |-> IF IsSome(payload.title) /\ ~IsBlank(Unwrap(payload.title))
                    THEN Set(Unwrap(payload.title)) ELSE NotSet,
     transcript |-> IF IsSome(payload.transcript)
                    THEN Set(clean_field(Unwrap(payload.transcript))) ELSE NotSet,
     translate  |-> IF IsSome(payload.translate)
                    THEN Set(clean_field(Unwrap(payload.translate))) ELSE NotSet,
     summary    |-> IF IsSome(payload.summary)
                    THEN Set(clean_field(Unwrap(payload.summary))) ELSE NotSet,
     tags       |-> IF IsSome(payload.tags)
                    THEN Set(serde_json_to_string(Unwrap(payload.tags))) ELSE NotSet]

NotFoundMsg == <<"Memo not found or access denied">>

\* update_memo writing back the whole row it read with its changes
UpdateMemoWriteWholeRow(memos, memo, payload) ==
    IF \A r \in memos : r.id # memo.id
    THEN Outcome(MemoResponse(<<"Failed to update memo">>, EmptyString), memos)
    ELSE Outcome(MemoResponse(<<"Memo updated successfully">>, UuidToString(memo.id)),
                 {r \in memos : r.id # memo.id}
                 \cup {ApplyActiveModel(memo, UpdateMemoModel(payload))})

\* update_memo inserting the row it read when the update finds no row
UpdateMemoWriteRecreating(memos, memo, payload) ==
    LET res == UpdateById(memos, memo.id, UpdateMemoModel(payload)) IN
    Outcome(MemoResponse(<<"Memo updated successfully">>, UuidToString(memo.id)),
            IF res.ok THEN res.table
            ELSE memos \cup {ApplyActiveModel(memo, UpdateMemoModel(payload))})

\* update_memo after the lookup, memo being the row it read: the update of
\* the set columns of the memo of that id as it is stored by then
UpdateMemoWrite(memos, memo, payload) ==
    LET res == UpdateById(memos, memo.id, UpdateMemoModel(payload)) IN
    IF res.ok
    THEN Outcome(MemoResponse(<<"Memo updated successfully">>, UuidToString(memo.id)),
                 res.table)
    ELSE Outcome(MemoResponse(<<"Failed to update memo">>, EmptyString), memos)

\* PATCH /update_memo/:memo_id
update_memo(memos, token, memo_id, payload, now) ==
    LET claims == validate_token(token, now) IN
    IF claims = None
    THEN Outcome(MemoResponse(InvalidTokenMsg, EmptyString), memos)
    ELSE
    LET user_id == ParseUuid(Unwrap(claims).sub)
        memo_uuid == ParseUuid(memo_id)
    IN
    IF user_id = None
    THEN Outcome(MemoResponse(<<"Invalid user ID">>, EmptyString), memos)
    ELSE IF memo_uuid = None
    THEN Outcome(MemoResponse(<<"Invalid memo ID">>, EmptyString), memos)
    ELSE
    LET memo == FindByIdAndUser(memos, Unwrap(memo_uuid), Unwrap(user_id)) IN
    IF memo = None
    THEN Outcome(MemoResponse(NotFoundMsg, EmptyString), memos)
    ELSE
    UpdateMemoWrite(memos, Unwrap(memo), payload)

\* delete_memo answering "Memo deleted" whatever the number of rows deleted
delete_memo_any_count(memos, token, memo_id, now) ==
    LET claims == validate_token(token, now) IN
    IF claims = None
    THEN Outcome(MemoResponse(InvalidTokenMsg, EmptyString), memos)
    ELSE
    LET user_id == ParseUuid(Unwrap(claims).sub)
        memo_uuid == ParseUuid(memo_id)
    IN
    IF user_id = None
    THEN Outcome(MemoResponse(<<"Invalid user ID">>, EmptyString), memos)
    ELSE IF memo_uuid = None
    THEN Outcome(MemoResponse(<<"Invalid memo ID">>, EmptyString), memos)
    ELSE
    LET res == DeleteMemoByIdAndUser(memos, Unwrap(memo_uuid), Unwrap(user_id)) IN
    Outcome(MemoResponse(<<"Memo deleted">>, memo_id), res.table)

\* DELETE /delete_memo/:memo_id
delete_memo(memos, token, memo_id, now) ==
    LET claims == validate_token(token, now) IN
    IF claims = None
    THEN Outcome(MemoResponse(InvalidTokenMsg, EmptyString), memos)
    ELSE
    LET user_id == ParseUuid(Unwrap(claims).sub)
        memo_uuid == ParseUuid(memo_id)
    IN
    IF user_id = None
    THEN Outcome(MemoResponse(<<"Invalid user ID">>, EmptyString), memos)
    ELSE IF memo_uuid = None
    THEN Outcome(MemoResponse(<<"Invalid memo ID">>, EmptyString), memos)
    ELSE
    LET res == DeleteMemoByIdAndUser(memos, Unwrap(memo_uuid), Unwrap(user_id)) IN
    IF res.rows_affected > 0
    THEN Outcome(MemoResponse(<<"Memo deleted">>, memo_id), res.table)
    ELSE Outcome(MemoResponse(NotFoundMsg, EmptyString), res.table)

\* DELETE /delete_all_memos
delete_all_memos(memos, token, now) ==
    LET claims == validate_token(token, now) IN
    IF claims = None
    THEN Outcome(MemoResponse(InvalidTokenMsg, EmptyString), memos)
    ELSE
    LET user_id == ParseUuid(Unwrap(claims).sub) IN
    IF user_id = None
    THEN Outcome(MemoResponse(<<"Invalid user ID">>, EmptyString), memos)
    ELSE
    LET res == DeleteMemosByUser(memos, Unwrap(user_id)) IN
    Outcome(MemoResponse(<<"Deleted {} memo(s)", res.rows_affected>>, EmptyString),
            res.table)

---------------------------------------------------------------------------
(* UserApi (src/src/api/user.rs) *)

\* validator's email rule: one "@" between a non-empty user part and a
\* non-empty domain part, neither holding whitespace
ValidEmail(s) ==
    LET ats == {i \in 1..Len(s) : s[i] = "@"} IN
    /\ Cardinality(ats) = 1
    /\ 1 \notin ats
    /\ Len(s) \notin ats
    /\ \A i \in 1..Len(s) : s[i] \notin Whitespace

\* SignupPayload::validate
ValidSignup(payload) ==
    /\ Len(payload.username) >= 3
    /\ ValidEmail(payload.email)
    /\ Len(payload.password) >= 8

UserResult(status, message, value, table) ==
    [resp |-> [status |-> status, message |-> message, value |-> value],
     users |-> table]

\* POST /signup
signup(userTable, payload, new_v4, salt, now) ==
    IF ~ValidSignup(payload)
    THEN UserResult(400, <<"validation">>, EmptyString, userTable)
    ELSE IF IsSome(FindUserByEmail(userTable, payload.email))
    THEN UserResult(409, <<"User with this email already exists">>, EmptyString, userTable)
    ELSE
    LET res == InsertUser(userTable,
                          [id         |-> new_v4,
                           username   |-> payload.username,
                           email      |-> payload.email,
                           password   |-> hash(payload.password, salt),
                           created_at |-> now])
    IN  IF res.ok
        THEN UserResult(200, <<"User created successfully">>, UuidToString(new_v4), res.table)
        ELSE UserResult(500, <<"Failed to create user">>, EmptyString, userTable)

\* signup after the lookup of existing_user found none: the insert and the
\* response
SignupInsert(userTable, payload, new_v4, salt, now) ==
    LET res == InsertUser(userTable,
                          [id         |-> new_v4,
                           username   |-> payload.username,
                           email      |-> payload.email,
                           password   |-> hash(payload.password, salt),
                           created_at |-> now])
    IN  IF res.ok
        THEN UserResult(200, <<"User created successfully">>, UuidToString(new_v4), res.table)
        ELSE UserResult(500, <<"Failed to create user">>, EmptyString, userTable)

\* POST /login: value is the token
login(userTable, payload, now) ==
    LET user == FindUserByEmail(userTable, payload.email) IN
    IF user = None
    THEN UserResult(401, <<"Invalid email or password">>, None, userTable)
    ELSE IF verify(payload.password, Unwrap(user).password)
    THEN UserResult(200, <<"Login Successful">>, Some(IssueToken(Unwrap(user), now)), userTable)
    ELSE UserResult(401, <<"Invalid email or password">>, None, userTable)

---------------------------------------------------------------------------
(* Cipher (src/src/api/crypto.rs): AES-256-GCM under a fixed key, a random  *)
(* 96-bit nonce in front of the ciphertext, the whole in base64.  The nonce *)
(* OsRng gives is an input of encrypt.                                      *)

ENCRYPTION_KEY == "01234567890123456789012345678901"

\* the length of the nonce, in bytes
NonceLen == 12

\* str::as_bytes and String::from_utf8 (None for the Err)
AsBytes(s) == [i \in 1..Len(s) |-> <<"u8", s[i]>>]
FromUtf8(bytes) ==
    IF \A i \in 1..Len(bytes) : Len(bytes[i]) = 2 /\ bytes[i][1] = "u8"
    THEN Some([i \in 1..Len(bytes) |-> bytes[i][2]])
    ELSE None

\* the bytes of the nonce the generator gives as its n-th value
NonceBytes(n) == [i \in 1..NonceLen |-> n]

\* Aes256Gcm encrypt / decrypt: the ciphertext with its tag is one sealed
\* item, which opens under the key and the nonce it was sealed with
AesGcmSeal(key, nonce, bytes) == <<[key |-> key, nonce |-> nonce, plain |-> bytes]>>
AesGcmOpen(key, nonce, ciphertext) ==
    IF Len(ciphertext) = 1 /\ ciphertext[1].key = key /\ ciphertext[1].nonce = nonce
    THEN Some(ciphertext[1].plain)
    ELSE None

\* general_purpose::STANDARD encode / decode (None for the Err)
Base64Encode(bytes) == <<"base64", bytes>>
Base64Decode(s) == IF Len(s) = 2 /\ s[1] = "base64" THEN Some(s[2]) ELSE None

\* encrypt sealing under the same nonce at every call
encrypt_fixed_nonce(plain_text, n) ==
    Some(Base64Encode(NonceBytes(0)
                      \o AesGcmSeal(ENCRYPTION_KEY, NonceBytes(0), AsBytes(plain_text))))

\* encrypt(plain_text), n the value of generate_nonce: Some(token) for Ok
encrypt(plain_text, n) ==
    LET nonce == NonceBytes(n)
        ciphertext == AesGcmSeal(ENCRYPTION_KEY, nonce, AsBytes(plain_text))
    IN  Some(Base64Encode(nonce \o ciphertext))

\* decrypt(encoded): Some(plain text) for Ok, None for every Err
decrypt(encoded) ==
    LET combined == Base64Decode(encoded) IN
    IF combined = None THEN None
    ELSE IF Len(Unwrap(combined)) < NonceLen THEN None
    ELSE
    LET nonce_bytes == SubSeq(Unwrap(combined), 1, NonceLen)
        ciphertext == SubSeq(Unwrap(combined), NonceLen + 1, Len(Unwrap(combined)))
        decrypted_bytes == AesGcmOpen(ENCRYPTION_KEY, nonce_bytes, ciphertext)
    IN  IF decrypted_bytes = None THEN None ELSE FromUtf8(Unwrap(decrypted_bytes))

---------------------------------------------------------------------------
(* Api (src/src/api/memo_api_store_ops.rs): the credential records of the  *)
(* helperApp table.  A handler is an operator from the tables and the      *)
(* request to the set of its possible [resp, keys]: the response and the   *)
(* helperApp table it leaves, one for each row find().one() may return.    *)

\* a response: the HTTP status and the body (None when there is none)
Reply(status, body) == [status |-> status, body |-> body]
KeyOutcome(resp, keys) == [resp |-> resp, keys |-> keys]

ApiKeyResponse(gemini_api_key, elevenlabs_api_key, message) ==
    [gemini_api_key |-> gemini_api_key, elevenlabs_api_key |-> elevenlabs_api_key,
     message |-> message]
HelperStatusResponse(status, message) == [status |-> status, message |-> message]
DeleteResponse(message) == [message |-> message]

\* get_user_from_token: [ok, user] with the users row, or [ok, error] with
\* the ApiKeyResponse of the Err
get_user_from_token(userTable, token, now) ==
    LET claims == validate_token(token, now) IN
    IF claims = None
    THEN [ok |-> FALSE, error |-> ApiKeyResponse(None, None, InvalidTokenMsg)]
    ELSE
    LET user_id == ParseUuid(Unwrap(claims).sub) IN
    IF user_id = None
    THEN [ok |-> FALSE,
          error |-> ApiKeyResponse(None, None, <<"Invalid user ID format in token">>)]
    ELSE
    LET user == FindById(userTable, Unwrap(user_id)) IN
    IF user = None
    THEN [ok |-> FALSE,
          error |-> ApiKeyResponse(None, None, <<"User {} not found in database",
                                                 UuidToString(Unwrap(user_id))>>)]
    ELSE [ok |-> TRUE, user |-> Unwrap(user)]

\* helper_app::Entity::find().filter(UserId.eq(user_id)).one(db): the
\* Option<Model> values the statement may return (any row of the user)
\* the lookup of a credential record without the filter on user_id
FindKeysOfAnyUser(table, user_id) ==
    IF table = {} THEN {None} ELSE {Some(r) : r \in table}

FindKeysByUser(table, user_id) ==
    LET found == {r \in table : r.user_id = user_id}
    IN  IF found = {} THEN {None} ELSE {Some(r) : r \in found}

\* INSERT INTO helperApp: id is the primary key, user_id references users
InsertKeys(table, userTable, row) ==
    IF (\E r \in table : r.id = row.id) \/ ~(\E u \in userTable : u.id = row.user_id)
    THEN DbErr(table)
    ELSE DbOk(table \cup {row})

\* Option<&str>.map(encrypt).transpose() of an Ok
EncryptOpt(key, n) == IF key = None THEN None ELSE encrypt(Unwrap(key), n)

\* Option<&str>.and_then(|k| decrypt(k).ok())
\* DecryptOpt handing out the stored value as it is
DecryptOptStored(key) == key

DecryptOpt(key) == IF key = None THEN None ELSE decrypt(Unwrap(key))

\* SaveApiKeysModel writing both key columns, NULL for a key left out
SaveApiKeysModelBothKeys(encrypted_gemini, encrypted_elevenlabs, now) ==
    [gemini_key     |-> Set(encrypted_gemini),
     elevenlabs_key |-> Set(encrypted_elevenlabs),
     timestamp      |-> Set(now)]

\* save_api_keys, Some(model): the columns active_model sets
SaveApiKeysModel(encrypted_gemini, encrypted_elevenlabs, now) ==
    [gemini_key     |-> IF IsSome(encrypted_gemini) THEN Set(encrypted_gemini) ELSE NotSet,
     elevenlabs_key |-> IF IsSome(encrypted_elevenlabs)
                        THEN Set(encrypted_elevenlabs) ELSE NotSet,
     timestamp      |-> Set(now)]

\* save_api_keys, None: new_model
SaveApiKeysNewRow(user, encrypted_gemini, encrypted_elevenlabs, new_v4, now) ==
    [id             |-> new_v4,
     user_id        |-> user.id,
     gemini_key     |-> encrypted_gemini,
     elevenlabs_key |-> encrypted_elevenlabs,
     action         |-> "api_keys_save",
     timestamp      |-> now,
     helper_status  |-> FALSE]

\* save_api_keys after the lookup of existing_record: the update or the
\* insert, and the response.  nonces are the values generate_nonce gives to
\* the two calls of encrypt.
SaveApiKeysWrite(userTable, table, user, existing_record, payload, nonces, new_v4, now) ==
    LET encrypted_gemini == EncryptOpt(payload.gemini_api_key, nonces[1])
        encrypted_elevenlabs == EncryptOpt(payload.elevenlabs_api_key, nonces[2])
        result ==
            IF IsSome(existing_record)
            THEN UpdateById(table, Unwrap(existing_record).id,
                            SaveApiKeysModel(encrypted_gemini, encrypted_elevenlabs, now))
            ELSE InsertKeys(table, userTable,
                            SaveApiKeysNewRow(user, encrypted_gemini, encrypted_elevenlabs,
                                              new_v4, now))
    IN  IF result.ok
        THEN KeyOutcome(Reply(200, Some(ApiKeyResponse(payload.gemini_api_key,
                                                       payload.elevenlabs_api_key,
                                                       <<"API keys saved successfully">>))),
                        result.table)
        ELSE KeyOutcome(Reply(500, Some(ApiKeyResponse(None, None,
                                                       <<"Failed to save API keys.">>))),
                        table)

\* POST /api_keys/save
save_api_keys(userTable, table, token, payload, nonces, new_v4, now) ==
    LET auth == get_user_from_token(userTable, token, now) IN
    IF ~auth.ok THEN {KeyOutcome(Reply(401, Some(auth.error)), table)}
    ELSE {SaveApiKeysWrite(userTable, table, auth.user, existing_record, payload, nonces,
                           new_v4, now)
             : existing_record \in FindKeysByUser(table, auth.user.id)}

\* GET /api_keys/get
get_api_keys(userTable, table, token, now) ==
    LET auth == get_user_from_token(userTable, token, now) IN
    IF ~auth.ok THEN {Reply(401, Some(auth.error))}
    ELSE {IF keys_record = None
          THEN Reply(404, Some(ApiKeyResponse(None, None,
                                              <<"No API keys found for this user.">>)))
          ELSE Reply(200, Some(ApiKeyResponse(DecryptOpt(Unwrap(keys_record).gemini_key),
                                              DecryptOpt(Unwrap(keys_record).elevenlabs_key),
                                              <<"API keys retrieved successfully">>)))
             : keys_record \in FindKeysByUser(table, auth.user.id)}

\* DeleteKeyModel clearing both key columns
DeleteKeyModelBothKeys(column) == [gemini_key |-> Set(None), elevenlabs_key |-> Set(None)]

\* delete_gemini_key / delete_elevenlabs_key: the column active_model sets
DeleteKeyModel(column) == [c \in {column} |-> Set(None)]

\* delete_gemini_key / delete_elevenlabs_key after the lookup of
\* existing_record
DeleteKeyWrite(table, existing_record, column, message) ==
    IF existing_record = None
    THEN KeyOutcome(Reply(404, Some(<<"API key record not found for user.">>)), table)
    ELSE
    LET result == UpdateById(table, Unwrap(existing_record).id, DeleteKeyModel(column)) IN
    IF result.ok
    THEN KeyOutcome(Reply(200, Some(DeleteResponse(message))), result.table)
    ELSE KeyOutcome(Reply(500, Some(<<"RecordNotUpdated">>)), table)

\* DELETE /api_keys/gemini
delete_gemini_key(userTable, table, token, now) ==
    LET auth == get_user_from_token(userTable, token, now) IN
    IF ~auth.ok THEN {KeyOutcome(Reply(401, None), table)}
    ELSE {DeleteKeyWrite(table, existing_record, "gemini_key",
                         <<"Gemini API key deleted successfully">>)
             : existing_record \in FindKeysByUser(table, auth.user.id)}

\* DELETE /api_keys/elevenlabs
delete_elevenlabs_key(userTable, table, token, now) ==
    LET auth == get_user_from_token(userTable, token, now) IN
    IF ~auth.ok THEN {KeyOutcome(Reply(401, None), table)}
    ELSE {DeleteKeyWrite(table, existing_record, "elevenlabs_key",
                         <<"ElevenLabs API key deleted successfully">>)
             : existing_record \in FindKeysByUser(table, auth.user.id)}

\* update_helper_status, None: new_model (the keys are Default::default())
HelperStatusNewRow(user, status, new_v4, now) ==
    [id             |-> new_v4,
     user_id        |-> user.id,
     gemini_key     |-> None,
     elevenlabs_key |-> None,
     action         |-> "helper_status_update",
     timestamp      |-> now,
     helper_status  |-> status]

\* update_helper_status after the lookup of existing_record
HelperStatusWrite(userTable, table, user, existing_record, payload, new_v4, now) ==
    LET result ==
            IF IsSome(existing_record)
            THEN UpdateById(table, Unwrap(existing_record).id,
                            [helper_status |-> Set(payload.status)])
            ELSE InsertKeys(table, userTable,
                            HelperStatusNewRow(user, payload.status, new_v4, now))
    IN  IF result.ok
        THEN KeyOutcome(Reply(200, Some(HelperStatusResponse(
                                            payload.status,
                                            <<"Helper status updated successfully">>))),
                        result.table)
        ELSE KeyOutcome(Reply(500, Some(<<"DbErr">>)), table)

\* POST /helper/status
update_helper_status(userTable, table, token, payload, new_v4, now) ==
    LET auth == get_user_from_token(userTable, token, now) IN
    IF ~auth.ok THEN {KeyOutcome(Reply(401, None), table)}
    ELSE {HelperStatusWrite(userTable, table, auth.user, existing_record, payload, new_v4, now)
             : existing_record \in FindKeysByUser(table, auth.user.id)}

\* get_helper_status answering 404 when the user has no record
get_helper_status_strict(userTable, table, token, now) ==
    LET auth == get_user_from_token(userTable, token, now) IN
    IF ~auth.ok THEN {Reply(401, None)}
    ELSE {IF record = None
          THEN Reply(404, None)
          ELSE Reply(200, Some(HelperStatusResponse(
                                   Unwrap(record).helper_status,
                                   <<"Helper status retrieved successfully">>)))
             : record \in FindKeysByUser(table, auth.user.id)}

\* GET /helper/status
get_helper_status(userTable, table, token, now) ==
    LET auth == get_user_from_token(userTable, token, now) IN
    IF ~auth.ok THEN {Reply(401, None)}
    ELSE {IF record = None
          THEN Reply(200, Some(HelperStatusResponse(
                                   FALSE,
                                   <<"No helper record found; returning default status.">>)))
          ELSE Reply(200, Some(HelperStatusResponse(
                                   Unwrap(record).helper_status,
                                   <<"Helper status retrieved successfully">>)))
             : record \in FindKeysByUser(table, auth.user.id)}

---------------------------------------------------------------------------
(* GeminiApi (src/src/api/gemini.rs).  The reply of the generation endpoint *)
(* is an input of the request; a handler returns the set of its possible   *)
(* outcomes [resp, calls], calls being the requests it sent upstream.      *)

GenerationOps == {"transcribe_audio", "gemini_translate", "summary", "gemini_generate_memo_name"}

GenOutcome(body, calls) == [resp |-> Reply(200, body), calls |-> calls]

\* get_decrypted_gemini_key: the results it may give
get_decrypted_gemini_key(table, user) ==
    {IF key_record = None
     THEN [ok |-> FALSE, msg |-> <<"Gemini API key not found for this user">>]
     ELSE IF DecryptOpt(Unwrap(key_record).gemini_key) = None
     THEN [ok |-> FALSE, msg |-> <<"Failed to decrypt Gemini API key">>]
     ELSE [ok |-> TRUE, key |-> Unwrap(DecryptOpt(Unwrap(key_record).gemini_key))]
        : key_record \in FindKeysByUser(table, user.id)}

\* the contents transcribe_with_gemini, translate_with_gemini, summarize_text
\* and generate_title build
GenerationContents(op, payload) ==
    IF op = "transcribe_audio"
    THEN [prompt |-> "Please transcribe this audio.", data |-> Base64Encode(payload)]
    ELSE [prompt |-> op, data |-> payload]

\* gemini_client sending the request again when the first reply is a failure
gemini_client_retrying(contents, key, reply) ==
    LET call == [key |-> key, contents |-> contents] IN
    IF reply.kind = "transport"
    THEN [ok |-> FALSE, err |-> <<"error sending request">>, calls |-> <<call, call>>]
    ELSE IF reply.kind = "status"
    THEN [ok |-> FALSE, err |-> <<"Gemini API request failed: {}", reply.body>>,
          calls |-> <<call, call>>]
    ELSE IF reply.text = None
    THEN [ok |-> FALSE, err |-> <<"Failed to parse Gemini API response. Full response: {}">>,
          calls |-> <<call>>]
    ELSE [ok |-> TRUE, text |-> Trim(Unwrap(reply.text)), calls |-> <<call>>]

\* gemini_client: one POST to generateContent, and what it makes of the reply
gemini_client(contents, key, reply) ==
    LET call == [key |-> key, contents |-> contents] IN
    IF reply.kind = "transport"
    THEN [ok |-> FALSE, err |-> <<"error sending request">>, calls |-> <<call>>]
    ELSE IF reply.kind = "status"
    THEN [ok |-> FALSE, err |-> <<"Gemini API request failed: {}", reply.body>>,
          calls |-> <<call>>]
    ELSE IF reply.text = None
    THEN [ok |-> FALSE, err |-> <<"Failed to parse Gemini API response. Full response: {}">>,
          calls |-> <<call>>]
    ELSE [ok |-> TRUE, text |-> Trim(Unwrap(reply.text)), calls |-> <<call>>]

\* POST /transcribe, /translate, /summary, /generate_memo_name
GeminiHandler(op, userTable, table, token, payload, reply, now) ==
    LET auth == get_user_from_token(userTable, token, now) IN
    IF ~auth.ok
    THEN {GenOutcome(<<"User fetch error: {}", auth.error.message>>, <<>>)}
    ELSE {IF ~gemini_api_key.ok
          THEN GenOutcome(gemini_api_key.msg, <<>>)
          ELSE LET res == gemini_client(GenerationContents(op, payload),
                                        gemini_api_key.key, reply)
               IN  IF res.ok
                   THEN GenOutcome(res.text, res.calls)
                   ELSE GenOutcome(<<IF op = "transcribe_audio"
                                     THEN "Transcription Error: {}" ELSE "Error: {}",
                                     res.err>>, res.calls)
             : gemini_api_key \in get_decrypted_gemini_key(table, auth.user)}

---------------------------------------------------------------------------
(* The state machine *)

\* what is kept of the request served last: the handler, the user the token
\* names (None when the token is refused or names none), the memo id the
\* request carries (None when it carries none), the response, and whether the
\* request is a delete_memo that follows a delete_memo of the same memo by
\* the same user that was answered "Memo deleted"
Served(op, token, id, now, resp) ==
    [op    |-> op,
     user  |-> IF IsSome(validate_token(token, now))
               THEN ParseUuid(Unwrap(validate_token(token, now)).sub) ELSE None,
     id    |-> id,
     resp  |-> resp,
     again |-> FALSE]

ServedOpen(op, resp) ==
    [op |-> op, user |-> None, id |-> None, resp |-> resp, again |-> FALSE]

\* the Uuid the memo id of a served request parses to, if any
Target(served) == IF IsSome(served.id) THEN ParseUuid(Unwrap(served.id)) ELSE None

\* a served delete_memo comes after a successful delete_memo, served just
\* before, of the same memo by the same user
DeletesAgain(before, served) ==
    /\ before.op = "delete_memo"
    /\ before.resp.message = <<"Memo deleted">>
    /\ before.user = served.user
    /\ Target(before) = Target(served)

Init ==
    /\ users = {}
    /\ voice_memos1 = {}
    /\ helper_app = {}
    /\ last = ServedOpen("start", <<>>)
    /\ pending = {}

Signup(payload, new_v4, salt, now) ==
    LET out == signup(users, payload, new_v4, salt, now) IN
    /\ users' = out.users
    /\ last' = ServedOpen("signup", out.resp)
    /\ UNCHANGED <<voice_memos1, helper_app, pending>>

Login(payload, now) ==
    LET out == login(users, payload, now) IN
    /\ last' = ServedOpen("login", out.resp)
    /\ UNCHANGED <<users, voice_memos1, helper_app, pending>>

SaveMemo(token, payload, new_v4, now) ==
    LET out == save_memo(users, voice_memos1, token, payload, new_v4, now) IN
    /\ voice_memos1' = out.memos
    /\ last' = Served("save_memo", token, payload.id, now, out.resp)
    /\ UNCHANGED <<users, helper_app, pending>>

GetMemos(token, now) ==
    /\ \E resp \in get_memos(voice_memos1, token, now) :
           last' = Served("get_memos", token, None, now, resp)
    /\ UNCHANGED <<users, voice_memos1, helper_app, pending>>

GetMemoById(token, memo_id, now) ==
    /\ last' = Served("get_memo_by_id", token, Some(memo_id), now,
                      get_memo_by_id(voice_memos1, token, memo_id, now))
    /\ UNCHANGED <<users, voice_memos1, helper_app, pending>>

UpdateMemo(token, memo_id, payload, now) ==
    LET out == update_memo(voice_memos1, token, memo_id, payload, now) IN
    /\ voice_memos1' = out.memos
    /\ last' = Served("update_memo", token, Some(memo_id), now, out.resp)
    /\ UNCHANGED <<users, helper_app, pending>>

DeleteMemo(token, memo_id, now) ==
    LET out == delete_memo(voice_memos1, token, memo_id, now)
        served == Served("delete_memo", token, Some(memo_id), now, out.resp)
    IN
    /\ voice_memos1' = out.memos
    /\ last' = [served EXCEPT !.again = DeletesAgain(last, served)]
    /\ UNCHANGED <<users, helper_app, pending>>

DeleteAllMemos(token, now) ==
    LET out == delete_all_memos(voice_memos1, token, now) IN
    /\ voice_memos1' = out.memos
    /\ last' = Served("delete_all_memos", token, None, now, out.resp)
    /\ UNCHANGED <<users, helper_app, pending>>

\* what is kept of a served request of Api: as Served, with the payload
\* (None when the request carries none)
ServedKeys(op, token, payload, now, resp) ==
    Served(op, token, None, now, resp) @@ [payload |-> payload]

SaveApiKeys(token, payload, nonces, new_v4, now) ==
    /\ \E out \in save_api_keys(users, helper_app, token, payload, nonces, new_v4, now) :
           /\ helper_app' = out.keys
           /\ last' = ServedKeys("save_api_keys", token, Some(payload), now, out.resp)
    /\ UNCHANGED <<users, voice_memos1, pending>>

GetApiKeys(token, now) ==
    /\ \E resp \in get_api_keys(users, helper_app, token, now) :
           last' = ServedKeys("get_api_keys", token, None, now, resp)
    /\ UNCHANGED <<users, voice_memos1, helper_app, pending>>

DeleteGeminiKey(token, now) ==
    /\ \E out \in delete_gemini_key(users, helper_app, token, now) :
           /\ helper_app' = out.keys
           /\ last' = ServedKeys("delete_gemini_key", token, None, now, out.resp)
    /\ UNCHANGED <<users, voice_memos1, pending>>

DeleteElevenlabsKey(token, now) ==
    /\ \E out \in delete_elevenlabs_key(users, helper_app, token, now) :
           /\ helper_app' = out.keys
           /\ last' = ServedKeys("delete_elevenlabs_key", token, None, now, out.resp)
    /\ UNCHANGED <<users, voice_memos1, pending>>

UpdateHelperStatus(token, payload, new_v4, now) ==
    /\ \E out \in update_helper_status(users, helper_app, token, payload, new_v4, now) :
           /\ helper_app' = out.keys
           /\ last' = ServedKeys("update_helper_status", token, Some(payload), now, out.resp)
    /\ UNCHANGED <<users, voice_memos1, pending>>

GetHelperStatus(token, now) ==
    /\ \E resp \in get_helper_status(users, helper_app, token, now) :
           last' = ServedKeys("get_helper_status", token, None, now, resp)
    /\ UNCHANGED <<users, voice_memos1, helper_app, pending>>

Generate(op, token, payload, reply, now) ==
    /\ \E out \in GeminiHandler(op, users, helper_app, token, payload, reply, now) :
           last' = ServedKeys(op, token, Some(payload), now, out.resp)
                       @@ [calls |-> out.calls, reply |-> reply]
    /\ UNCHANGED <<users, voice_memos1, helper_app, pending>>

\* the first step of every handler of Api: get_user_from_token on the token
\* of the request
VerifyToken(token, now) ==
    /\ last' = [op |-> "get_user_from_token", token |-> token, now |-> now,
                auth |-> get_user_from_token(users, token, now)]
    /\ UNCHANGED <<users, voice_memos1, helper_app, pending>>

\* A handler that looks a row up and then writes, one database round trip
\* per step: the lookup puts the request in pending with what it found, the
\* write takes it out.  A request refused at the lookup is answered at once.

\* number of requests between their lookup and their write
MaxPending == 2

\* drawn: the random values of the request besides new_v4 (the nonces of
\* encrypt, the salt of hash)
InFlight(op, user, existing, payload, drawn, new_v4, now) ==
    [op |-> op, user |-> user, existing |-> existing, payload |-> payload,
     drawn |-> drawn, new_v4 |-> new_v4, now |-> now]

SignupLookup(payload, new_v4, salt, now) ==
    /\ Cardinality(pending) < MaxPending
    /\ IF ~ValidSignup(payload) \/ IsSome(FindUserByEmail(users, payload.email))
       THEN /\ last' = ServedOpen("signup", signup(users, payload, new_v4, salt, now).resp)
                           @@ [payload |-> Some(payload)]
            /\ UNCHANGED pending
       ELSE /\ pending' = pending \cup {InFlight("signup", None, None, payload, salt, new_v4, now)}
            /\ UNCHANGED last
    /\ UNCHANGED <<users, voice_memos1, helper_app>>

SignupWrite(req) ==
    LET out == SignupInsert(users, req.payload, req.new_v4, req.drawn, req.now) IN
    /\ req.op = "signup"
    /\ users' = out.users
    /\ last' = ServedOpen("signup", out.resp) @@ [payload |-> Some(req.payload)]
    /\ pending' = pending \ {req}
    /\ UNCHANGED <<voice_memos1, helper_app>>

SaveApiKeysLookup(token, payload, nonces, new_v4, now) ==
    LET auth == get_user_from_token(users, token, now) IN
    /\ Cardinality(pending) < MaxPending
    /\ IF ~auth.ok
       THEN /\ last' = ServedKeys("save_api_keys", token, Some(payload), now,
                                  Reply(401, Some(auth.error)))
            /\ UNCHANGED pending
       ELSE /\ \E existing_record \in FindKeysByUser(helper_app, auth.user.id) :
                   pending' = pending \cup {InFlight("save_api_keys", auth.user, existing_record,
                                                     payload, nonces, new_v4, now)}
            /\ UNCHANGED last
    /\ UNCHANGED <<users, voice_memos1, helper_app>>

SaveApiKeysWriteBack(req) ==
    LET out == SaveApiKeysWrite(users, helper_app, req.user, req.existing, req.payload,
                                req.drawn, req.new_v4, req.now)
    IN
    /\ req.op = "save_api_keys"
    /\ helper_app' = out.keys
    /\ last' = [op |-> "save_api_keys", user |-> Some(req.user.id), id |-> None,
                resp |-> out.resp, again |-> FALSE, payload |-> Some(req.payload)]
    /\ pending' = pending \ {req}
    /\ UNCHANGED <<users, voice_memos1>>

UpdateHelperStatusLookup(token, payload, new_v4, now) ==
    LET auth == get_user_from_token(users, token, now) IN
    /\ Cardinality(pending) < MaxPending
    /\ IF ~auth.ok
       THEN /\ last' = ServedKeys("update_helper_status", token, Some(payload), now,
                                  Reply(401, None))
            /\ UNCHANGED pending
       ELSE /\ \E existing_record \in FindKeysByUser(helper_app, auth.user.id) :
                   pending' = pending \cup {InFlight("update_helper_status", auth.user,
                                                     existing_record, payload, None, new_v4, now)}
            /\ UNCHANGED last
    /\ UNCHANGED <<users, voice_memos1, helper_app>>

UpdateHelperStatusWriteBack(req) ==
    LET out == HelperStatusWrite(users, helper_app, req.user, req.existing, req.payload,
                                 req.new_v4, req.now)
    IN
    /\ req.op = "update_helper_status"
    /\ helper_app' = out.keys
    /\ last' = [op |-> "update_helper_status", user |-> Some(req.user.id), id |-> None,
                resp |-> out.resp, again |-> FALSE, payload |-> Some(req.payload)]
    /\ pending' = pending \ {req}
    /\ UNCHANGED <<users, voice_memos1>>

\* update_memo up to its lookup: Some(row) when the token verifies, its subject
\* and memo_id are Uuids and the requester owns a memo of that id
UpdateMemoLookedUp(memos, token, memo_id, now) ==
    LET claims == validate_token(token, now) IN
    IF claims = None THEN None
    ELSE IF ParseUuid(Unwrap(claims).sub) = None \/ ParseUuid(memo_id) = None THEN None
    ELSE FindByIdAndUser(memos, Unwrap(ParseUuid(memo_id)),
                         Unwrap(ParseUuid(Unwrap(claims).sub)))

\* a memo request in flight draws no id (update_memo) or new_v4 (save_memo)
UpdateMemoLookup(token, memo_id, payload, now) ==
    LET memo == UpdateMemoLookedUp(voice_memos1, token, memo_id, now) IN
    /\ Cardinality(pending) < MaxPending
    /\ IF memo = None
       THEN /\ last' = Served("update_memo", token, Some(memo_id), now,
                              update_memo(voice_memos1, token, memo_id, payload, now).resp)
            /\ UNCHANGED pending
       ELSE /\ pending' = pending \cup {InFlight("update_memo", Unwrap(memo).user_id, memo,
                                                 payload, None, 0, now)}
            /\ UNCHANGED last
    /\ UNCHANGED <<users, voice_memos1, helper_app>>

UpdateMemoWriteBack(req) ==
    LET out == UpdateMemoWrite(voice_memos1, Unwrap(req.existing), req.payload) IN
    /\ req.op = "update_memo"
    /\ voice_memos1' = out.memos
    /\ last' = [op |-> "update_memo", user |-> Some(req.user),
                id |-> Some(UuidToString(Unwrap(req.existing).id)),
                resp |-> out.resp, again |-> FALSE, req |-> req]
    /\ pending' = pending \ {req}
    /\ UNCHANGED <<users, helper_app>>

\* save_memo up to its write: TRUE when the token verifies, the user exists,
\* title and duration are given and the memo of the payload's id, if any, is
\* the requester's
SaveMemoReachesWrite(userTable, memos, token, payload, now) ==
    LET claims == validate_token(token, now) IN
    /\ claims # None
    /\ ParseUuid(Unwrap(claims).sub) # None
    /\ FindById(userTable, Unwrap(ParseUuid(Unwrap(claims).sub))) # None
    /\ ~(IsBlank(payload.title) \/ IsBlank(payload.duration))
    /\ \/ SaveMemoExisting(memos, payload) = None
       \/ Unwrap(SaveMemoExisting(memos, payload)).user_id
              = Unwrap(ParseUuid(Unwrap(claims).sub))

SaveMemoLookup(token, payload, new_v4, now) ==
    /\ Cardinality(pending) < MaxPending
    /\ IF ~SaveMemoReachesWrite(users, voice_memos1, token, payload, now)
       THEN /\ last' = Served("save_memo", token, payload.id, now,
                              save_memo(users, voice_memos1, token, payload, new_v4, now).resp)
            /\ UNCHANGED pending
       ELSE /\ pending' = pending
                  \cup {InFlight("save_memo",
                                 Unwrap(ParseUuid(Unwrap(validate_token(token, now)).sub)),
                                 SaveMemoExisting(voice_memos1, payload), payload, None,
                                 new_v4, now)}
            /\ UNCHANGED last
    /\ UNCHANGED <<users, voice_memos1, helper_app>>

SaveMemoWriteBack(req) ==
    LET out == SaveMemoWrite(users, voice_memos1, req.user, req.existing, req.payload,
                             req.new_v4, req.now)
    IN
    /\ req.op = "save_memo"
    /\ voice_memos1' = out.memos
    /\ last' = [op |-> "save_memo", user |-> Some(req.user), id |-> req.payload.id,
                resp |-> out.resp, again |-> FALSE, req |-> req]
    /\ pending' = pending \ {req}
    /\ UNCHANGED <<users, helper_app>>

---------------------------------------------------------------------------
(* Requests.  Clock readings are inputs of the requests. *)

\* readings of Utc::now() at a login and at any other request: a token of the
\* first login reading has expired at the request reading
LoginClock == {0, 150000}
Clock == {200000}

Salt == "salt"

\* the ids Uuid::new_v4() gives to users
UserUuids == {1, 2}

EmailA == <<"a", "@", "x">>
EmailB == <<"b", "@", "x">>
Username == Repeat("u", 3)
Password == Repeat("p", 8)

SignupPayload(username, email, password) ==
    [username |-> username, email |-> email, password |-> password]

SignupPayloads ==
    {SignupPayload(Username, e, Password) : e \in {EmailA, EmailB}}
    \cup {SignupPayload(Repeat("u", 2), EmailA, Password),
          SignupPayload(Username, <<"a", "x">>, Password),
          SignupPayload(Username, EmailB, Repeat("p", 7))}

LoginPayloads ==
    {[email |-> e, password |-> pw] :
        e \in {EmailA, EmailB}, pw \in {Password, Repeat("q", 8)}}

\* a token login did not issue
Token(sub, key, exp) ==
    [sub |-> sub, username |-> Username, email |-> EmailA, exp |-> exp, key |-> key]

\* the tokens login issued to the registered users at the later login reading:
\* decode accepts them at the request reading
IssuedTokens(userTable) == {IssueToken(u, 150000) : u \in userTable}

\* tokens signed with the secret that name no registered user: the subject is
\* the id of no user, or no Uuid at all
StrayTokens(userTable) ==
    {Token(UuidToString(u), JWT_SECRET, 150000 + TokenTtl) :
        u \in {v \in UserUuids : \A r \in userTable : r.id # v}}
    \cup {Token(NotAUuid, JWT_SECRET, 150000 + TokenTtl)}

\* the tokens decode refuses at the request reading: those login issued at
\* the earlier login reading, and one signed with another secret
RefusedTokens(userTable) ==
    {IssueToken(u, 0) : u \in userTable}
    \cup {Token(UuidToString(1), "guess", 150000 + TokenTtl)}

Tokens(userTable) ==
    IssuedTokens(userTable) \cup StrayTokens(userTable) \cup RefusedTokens(userTable)

\* MemoInput
MemoInput(id, title, transcript, translate, summary, tags, duration, audio_blob) ==
    [id |-> id, title |-> title, transcript |-> transcript, translate |-> translate,
     summary |-> summary, tags |-> tags, duration |-> duration, audio_blob |-> audio_blob]

\* MemoUpdate
MemoUpdate(title, transcript, translate, summary, tags) ==
    [title |-> title, transcript |-> transcript, translate |-> translate,
     summary |-> summary, tags |-> tags]

Blob == <<1, 2>>

SaveIds == {None} \cup {Some(s) : s \in IdStrings}

\* two payloads save_memo accepts, apart in the summary alone
PlainInput(id) ==
    MemoInput(id, Str("a"), Some(Str("x")), None, Some(Str(" ")),
              Some(<<Str("k")>>), Str("5"), Some(Blob))
SummaryInput(id) ==
    MemoInput(id, Str("a"), Some(Str("x")), None, Some(Str("s")),
              Some(<<Str("k")>>), Str("5"), Some(Blob))

\* two payloads save_memo refuses
BlankTitleInput(id) ==
    MemoInput(id, Str(" "), None, None, None, None, Str("5"), None)
BlankDurationInput(id) ==
    MemoInput(id, Str("a"), None, None, None, None, EmptyString, None)

SaveInputs ==
    UNION {{PlainInput(id), SummaryInput(id)} : id \in SaveIds}
    \cup UNION {{BlankTitleInput(id), BlankDurationInput(id)}
                : id \in {None} \cup {Some(UuidToString(u)) : u \in Uuids}}

UpdateInputs ==
    {MemoUpdate(None, None, None, Some(Str("s")), None),
     MemoUpdate(None, None, None, Some(Str(" ")), None)}

\* the ids of the requests: the text to_string prints of every Uuid, one
\* upper-case text and one text that is no Uuid
RequestIds == {UuidToString(u) : u \in Uuids} \cup {<<"HYPHENATED", 1>>, NotAUuid}

\* the save_memo requests of a registered user: an accepted payload with each
\* id and each generated Uuid, the refused payloads with one generated Uuid
SaveRequestsOf(token) ==
    ({token} \X {PlainInput(id) : id \in {None} \cup {Some(s) : s \in RequestIds}} \X Uuids)
    \cup ({token} \X {SummaryInput(id) : id \in {None} \cup {Some(UuidToString(u)) : u \in Uuids}}
                  \X Uuids)
    \cup ({token} \X (UNION {{BlankTitleInput(id), BlankDurationInput(id)}
                                : id \in {None} \cup {Some(UuidToString(u)) : u \in Uuids}})
                  \X {1})

\* the requests of the specification: those of the registered users, and one
\* with each other token
SaveRequests(userTable) ==
    UNION {SaveRequestsOf(token) : token \in IssuedTokens(userTable)}
    \cup ((StrayTokens(userTable) \cup RefusedTokens(userTable))
          \X {PlainInput(None)} \X {1})

IdRequests(userTable) ==
    (IssuedTokens(userTable) \X RequestIds)
    \cup ((StrayTokens(userTable) \cup RefusedTokens(userTable)) \X {UuidToString(1)})

UpdateRequests(userTable) ==
    {<<r[1], r[2], p>> : r \in IdRequests(userTable), p \in UpdateInputs}

Next ==
    \/ \E p \in SignupPayloads, g \in UserUuids, now \in Clock : Signup(p, g, Salt, now)
    \/ \E p \in LoginPayloads, now \in LoginClock : Login(p, now)
    \/ \E r \in SaveRequests(users), now \in Clock : SaveMemo(r[1], r[2], r[3], now)
    \/ \E tok \in Tokens(users), now \in Clock : GetMemos(tok, now)
    \/ \E r \in IdRequests(users), now \in Clock : GetMemoById(r[1], r[2], now)
    \/ \E r \in UpdateRequests(users), now \in Clock : UpdateMemo(r[1], r[2], r[3], now)
    \/ \E r \in IdRequests(users), now \in Clock : DeleteMemo(r[1], r[2], now)
    \/ \E tok \in Tokens(users), now \in Clock : DeleteAllMemos(tok, now)

Spec == Init /\ [][Next]_vars

---------------------------------------------------------------------------
(* The requests of one user on one memo, with partial updates of every shape. *)

FieldSignup == SignupPayload(Username, EmailA, Password)
FieldLogin == [email |-> EmailA, password |-> Password]
FieldMemoId == UuidToString(1)

\* the values a partial update carries for a field: none, text, blank text
FieldTitles == {None, Some(Str("b")), Some(Str(" "))}
FieldTranscripts == {None, Some(Str("y")), Some(EmptyString)}
FieldTranslates == {None, Some(Str("t"))}
FieldSummaries == {None, Some(Str("s"))}
FieldTags == {None, Some(<<>>), Some(<<Str("k"), <<"\"", "l">>>>)}

FieldUpdates ==
    {MemoUpdate(ti, tr, tl, su, ta) :
        ti \in FieldTitles, tr \in FieldTranscripts, tl \in FieldTranslates,
        su \in FieldSummaries, ta \in FieldTags}

\* a save_memo payload with the id of the memo, without transcript, tags and
\* audio blob
FieldSaveOver ==
    MemoInput(Some(FieldMemoId), Str("b"), None, None, Some(Str("s")), None, Str("7"), None)

NextFields ==
    \/ \E now \in Clock : Signup(FieldSignup, 1, Salt, now)
    \/ \E now \in LoginClock : Login(FieldLogin, now)
    \/ \E tok \in IssuedTokens(users), p \in {PlainInput(None), FieldSaveOver}, now \in Clock :
           SaveMemo(tok, p, 1, now)
    \/ \E tok \in IssuedTokens(users), now \in Clock : GetMemos(tok, now)
    \/ \E tok \in IssuedTokens(users), now \in Clock : GetMemoById(tok, FieldMemoId, now)
    \/ \E tok \in IssuedTokens(users), p \in FieldUpdates, now \in Clock :
           UpdateMemo(tok, FieldMemoId, p, now)
    \/ \E tok \in IssuedTokens(users), now \in Clock : DeleteMemo(tok, FieldMemoId, now)
    \/ \E tok \in IssuedTokens(users), now \in Clock : DeleteAllMemos(tok, now)

SpecFields == Init /\ [][NextFields]_vars

---------------------------------------------------------------------------
(* The credential requests of two users. *)

\* ApiKeysPayload
ApiKeysPayload(gemini_api_key, elevenlabs_api_key) ==
    [gemini_api_key |-> gemini_api_key, elevenlabs_api_key |-> elevenlabs_api_key]

\* HelperStatusPayload
HelperStatusPayload(status) == [status |-> status]

KeySignups ==
    {<<SignupPayload(Username, EmailA, Password), 1>>,
     <<SignupPayload(Username, EmailB, Password), 2>>}

\* the token login issued to the user of an email
TokenOf(userTable, email) == {IssueToken(u, 150000) : u \in {r \in userTable : r.email = email}}

\* the values generate_nonce gives to the two calls of encrypt of a request
NoncePairs == {<<1, 3>>, <<2, 3>>}

\* save_api_keys requests <<token, payload, nonces>>: every payload shape
\* from the first user, one payload from the second, one from each token
\* that names no user or is refused
SaveKeysRequests(userTable) ==
    (TokenOf(userTable, EmailA)
        \X {ApiKeysPayload(g, e) : g \in {None, Some(Str("g")), Some(Str("h"))},
                                   e \in {None, Some(Str("e"))}}
        \X NoncePairs)
    \cup ((TokenOf(userTable, EmailB) \cup StrayTokens(userTable) \cup RefusedTokens(userTable))
              \X {ApiKeysPayload(Some(Str("g")), None)} \X {<<1, 3>>})

\* update_helper_status requests <<token, payload>>
HelperStatusRequests(userTable) ==
    (TokenOf(userTable, EmailA) \X {HelperStatusPayload(b) : b \in BOOLEAN})
    \cup ((TokenOf(userTable, EmailB) \cup StrayTokens(userTable) \cup RefusedTokens(userTable))
              \X {HelperStatusPayload(TRUE)})

NextKeys ==
    \/ \E r \in KeySignups, now \in Clock : Signup(r[1], r[2], Salt, now)
    \/ \E r \in SaveKeysRequests(users), new_v4 \in Uuids, now \in Clock :
           SaveApiKeys(r[1], r[2], r[3], new_v4, now)
    \/ \E tok \in Tokens(users), now \in Clock : GetApiKeys(tok, now)
    \/ \E tok \in Tokens(users), now \in Clock : DeleteGeminiKey(tok, now)
    \/ \E tok \in Tokens(users), now \in Clock : DeleteElevenlabsKey(tok, now)
    \/ \E r \in HelperStatusRequests(users), new_v4 \in Uuids, now \in Clock :
           UpdateHelperStatus(r[1], r[2], new_v4, now)
    \/ \E tok \in Tokens(users), now \in Clock : GetHelperStatus(tok, now)

SpecKeys == Init /\ [][NextKeys]_vars

---------------------------------------------------------------------------
(* The generation requests of two users, each with a gemini key of its own. *)

\* what the generation endpoint may answer: no answer, a failure status, a
\* body without the candidate text, a body with it
UpstreamReplies ==
    {[kind |-> "transport"],
     [kind |-> "status", body |-> Str("q")],
     [kind |-> "json", text |-> None],
     [kind |-> "json", text |-> Some(<<" ", "r">>)]}

GenTokens(userTable) ==
    TokenOf(userTable, EmailA) \cup TokenOf(userTable, EmailB)
    \cup {Token(UuidToString(1), "guess", 150000 + TokenTtl)}

\* save_api_keys requests <<token, payload, nonces>>: the first user stores
\* the key "g" or no gemini key, the second the key "h"
GenSaveRequests(userTable) ==
    (TokenOf(userTable, EmailA)
        \X {ApiKeysPayload(Some(Str("g")), Some(Str("e"))), ApiKeysPayload(None, Some(Str("e")))}
        \X {<<1, 3>>})
    \cup (TokenOf(userTable, EmailB) \X {ApiKeysPayload(Some(Str("h")), None)} \X {<<2, 3>>})

\* update_helper_status requests <<token, payload>>
GenStatusRequests(userTable) ==
    (TokenOf(userTable, EmailA) \X {HelperStatusPayload(TRUE)})
    \cup (TokenOf(userTable, EmailB) \X {HelperStatusPayload(FALSE)})

NextGen ==
    \/ \E r \in KeySignups, now \in Clock : Signup(r[1], r[2], Salt, now)
    \/ \E r \in GenSaveRequests(users), new_v4 \in Uuids, now \in Clock :
           SaveApiKeys(r[1], r[2], r[3], new_v4, now)
    \/ \E tok \in GenTokens(users), now \in Clock : GetApiKeys(tok, now)
    \/ \E tok \in GenTokens(users), now \in Clock : DeleteGeminiKey(tok, now)
    \/ \E tok \in GenTokens(users), now \in Clock : DeleteElevenlabsKey(tok, now)
    \/ \E r \in GenStatusRequests(users), new_v4 \in Uuids, now \in Clock :
           UpdateHelperStatus(r[1], r[2], new_v4, now)
    \/ \E tok \in GenTokens(users), now \in Clock : GetHelperStatus(tok, now)
    \/ \E op \in GenerationOps, tok \in GenTokens(users), reply \in UpstreamReplies,
          now \in Clock :
           Generate(op, tok, Str("p"), reply, now)

SpecGen == Init /\ [][NextGen]_vars

---------------------------------------------------------------------------
(* Requests served concurrently: signups, and the credential writes of the *)
(* registered users.                                                       *)

\* signup requests <<payload, new_v4>>: two with the same email, two with
\* the same new_v4
RaceSignups ==
    {<<SignupPayload(Username, EmailA, Password), 1>>,
     <<SignupPayload(Repeat("v", 3), EmailA, Password), 2>>,
     <<SignupPayload(Username, EmailB, Password), 2>>}

\* the ids new_v4 gives to the credential records
RaceUuids == {1, 2}

\* the tokens of the credential requests: the one login issued to the user
\* of the first email, and one signed with another secret
RaceTokens(userTable) ==
    TokenOf(userTable, EmailA) \cup {Token(UuidToString(1), "guess", 150000 + TokenTtl)}

NextRace ==
    \/ \E r \in RaceSignups, now \in Clock : SignupLookup(r[1], r[2], Salt, now)
    \/ \E req \in pending : SignupWrite(req)
    \/ \E tok \in RaceTokens(users), new_v4 \in RaceUuids, now \in Clock :
           SaveApiKeysLookup(tok, ApiKeysPayload(Some(Str("g")), None), <<1, 3>>, new_v4, now)
    \/ \E req \in pending : SaveApiKeysWriteBack(req)
    \/ \E tok \in RaceTokens(users), new_v4 \in RaceUuids, now \in Clock :
           UpdateHelperStatusLookup(tok, HelperStatusPayload(TRUE), new_v4, now)
    \/ \E req \in pending : UpdateHelperStatusWriteBack(req)

SpecRace == Init /\ [][NextRace]_vars

---------------------------------------------------------------------------
(* Concurrent writers and deleters of one memo: the owner saves the memo,  *)
(* then updates it, saves over it and deletes it in requests that overlap. *)

\* two partial updates that both write the transcript
RaceUpdates ==
    {MemoUpdate(Some(Str("b")), Some(Str("y")), None, None, None),
     MemoUpdate(None, Some(Str("z")), None, Some(Str("s")), None)}

\* a save_memo with the id of the memo, without an audio blob
RaceSaveOver ==
    MemoInput(Some(FieldMemoId), Str("c"), None, Some(Str("t")), None, None, Str("7"), None)

\* new_v4 gives 1 to the memo saved first and 2 to a save_memo whose lookup
\* finds no memo of the payload's id
NextMemoRace ==
    \/ \E now \in Clock : Signup(FieldSignup, 1, Salt, now)
    \/ \E tok \in IssuedTokens(users), now \in Clock : SaveMemo(tok, PlainInput(None), 1, now)
    \/ \E tok \in IssuedTokens(users), p \in RaceUpdates, now \in Clock :
           UpdateMemoLookup(tok, FieldMemoId, p, now)
    \/ \E req \in pending : UpdateMemoWriteBack(req)
    \/ \E tok \in IssuedTokens(users), now \in Clock : SaveMemoLookup(tok, RaceSaveOver, 2, now)
    \/ \E req \in pending : SaveMemoWriteBack(req)
    \/ \E tok \in IssuedTokens(users), now \in Clock : DeleteMemo(tok, FieldMemoId, now)
    \/ \E tok \in IssuedTokens(users), now \in Clock : DeleteAllMemos(tok, now)

SpecMemoRace == Init /\ [][NextMemoRace]_vars

---------------------------------------------------------------------------
(* Tokens verified around their expiry. *)

\* seconds between the exp of a token and the reading of the clock at its
\* verification
ExpiryOffsets == {-86400, -1, 0, 1, 59, 60, 61, 3600}

\* the tokens login issues to the registered users
LoginTokens(userTable) == {IssueToken(u, t) : u \in userTable, t \in LoginClock}

\* tokens login did not issue: signed with another secret, or naming no Uuid
ForgedTokens ==
    {Token(UuidToString(u), "guess", 150000 + TokenTtl) : u \in UserUuids}
    \cup {Token(NotAUuid, JWT_SECRET, 150000 + TokenTtl)}

NextTokens ==
    \/ \E r \in KeySignups, now \in Clock : Signup(r[1], r[2], Salt, now)
    \/ \E p \in LoginPayloads, now \in LoginClock : Login(p, now)
    \/ \E tok \in LoginTokens(users) \cup ForgedTokens, d \in ExpiryOffsets :
           VerifyToken(tok, tok.exp + d)

SpecTokens == Init /\ [][NextTokens]_vars

---------------------------------------------------------------------------
(* Claims *)

\* the row of voice_memos1 with id u, as a set of zero or one rows
RowsWithId(memos, u) == {r \in memos : r.id = u}

\* the request served last named a memo that is stored and owned by a user
\* other than the one its token names
LastTargetsForeignMemo ==
    /\ IsSome(last.user)
    /\ IsSome(Target(last))
    /\ \E u \in users : u.id = Unwrap(last.user)
    /\ \E r \in voice_memos1 : r.id = Unwrap(Target(last)) /\ r.user_id # Unwrap(last.user)

\* C1: a memo owned by user A is changed or removed only by requests
\* authenticated as A.  Every step whose request is not authenticated as the
\* owner of a stored memo leaves that memo in the store with every field as it
\* was, and update_memo / delete_memo by another user on the memo's id answer
\* "Memo not found or access denied".
C1_OnlyOwnerChangesMemo ==
    [][ /\ \A r \in voice_memos1 :
              (last'.user = None \/ Unwrap(last'.user) # r.user_id)
                  => r \in voice_memos1'
        /\ (/\ last'.op \in {"update_memo", "delete_memo"}
            /\ IsSome(last'.user)
            /\ IsSome(Target(last'))
            /\ \E r \in voice_memos1 :
                   r.id = Unwrap(Target(last')) /\ r.user_id # Unwrap(last'.user))
               => last'.resp = MemoResponse(NotFoundMsg, EmptyString)
      ]_vars

\* C1 witness: update_memo by a user other than the owner was answered
\* "not found" and the memo is still stored
C1_Witness ==
    /\ last.op = "update_memo"
    /\ last.resp.message = NotFoundMsg
    /\ LastTargetsForeignMemo

\* the user a token names at a clock reading: Some(uuid), or None when the
\* token is refused or its subject is no Uuid
Requester(token, now) ==
    IF IsSome(validate_token(token, now))
    THEN ParseUuid(Unwrap(validate_token(token, now)).sub) ELSE None

\* the memos owned by the user a token names
OwnMemos(memos, token, now) ==
    LET user == Requester(token, now)
    IN  IF IsSome(user) THEN {m \in memos : m.user_id = Unwrap(user)} ELSE {}

\* C2: get_memo_by_id returns a memo only when a memo with that id is stored
\* and owned by the requester; for the id of another user's memo the answer is
\* the 404 it gives when no memo has the id (the answer on the store without
\* that memo), and the answer is the one computed from the requester's own
\* memos alone, whatever the other users' memos are.
C2_GetMemoOwnerOnly ==
    \A token \in Tokens(users), now \in Clock :
        LET user == Requester(token, now)
            own == OwnMemos(voice_memos1, token, now)
        IN  \A memo_id \in IdStrings :
                LET r == get_memo_by_id(voice_memos1, token, memo_id, now)
                    foreign == {m \in voice_memos1 \ own :
                                   IsSome(user) /\ ParseUuid(memo_id) = Some(m.id)}
                IN  /\ r.status = 200 =>
                        \E m \in voice_memos1 :
                            /\ ParseUuid(memo_id) = Some(m.id)
                            /\ user = Some(m.user_id)
                            /\ r.memo = Some(MemoOutput(m))
                    /\ foreign # {} =>
                        /\ r = MemoResult(404, NotFoundMsg, None)
                        /\ r = get_memo_by_id(voice_memos1 \ foreign, token, memo_id, now)
                    /\ r = get_memo_by_id(own, token, memo_id, now)

\* C2 witness: get_memo_by_id on the id of another user's stored memo was
\* answered 404
C2_Witness ==
    /\ last.op = "get_memo_by_id"
    /\ last.resp.status = 404
    /\ LastTargetsForeignMemo

\* the token names a registered user
Registered(userTable, token, now) ==
    /\ IsSome(Requester(token, now))
    /\ \E u \in userTable : u.id = Unwrap(Requester(token, now))

\* the payload passes save_memo's validation
ValidMemoInput(payload) == ~IsBlank(payload.title) /\ ~IsBlank(payload.duration)

\* C3: save_memo with an explicit id that resolves to a memo owned by a
\* different user is rejected: the store is left as it was (that memo is not
\* mutated, no memo is created) and no memo id is returned; a request of a
\* registered user whose title and duration pass validation is answered
\* "Unauthorized".
C3_SaveForeignIdRejected ==
    \A token \in Tokens(users), now \in Clock :
        LET user == Requester(token, now) IN
        IsSome(user) =>
            \A payload \in SaveInputs :
                LET existing == SaveMemoExisting(voice_memos1, payload) IN
                (IsSome(existing) /\ Unwrap(existing).user_id # Unwrap(user)) =>
                    \A new_v4 \in Uuids :
                        LET out == save_memo(users, voice_memos1, token, payload, new_v4, now)
                        IN  /\ out.memos = voice_memos1
                            /\ out.resp.memo_id = EmptyString
                            /\ (Registered(users, token, now) /\ ValidMemoInput(payload))
                                   => out.resp = MemoResponse(<<"Unauthorized">>, EmptyString)

\* C3 witness: save_memo by a registered user with the id of another user's
\* memo was answered "Unauthorized"
C3_Witness ==
    /\ last.op = "save_memo"
    /\ last.resp.message = <<"Unauthorized">>
    /\ LastTargetsForeignMemo

\* C4: a successful save_memo without an id inserts exactly one new memo,
\* owned by the requester, whose id differs from the id of every memo already
\* stored, and leaves the stored memos as they were; a save_memo without an id
\* that does not succeed leaves the store as it was; and the ids of the stored
\* memos are pairwise distinct.
C4_SaveWithoutIdInsertsFresh ==
    /\ \A token \in Tokens(users), payload \in SaveInputs, new_v4 \in Uuids, now \in Clock :
           LET out == save_memo(users, voice_memos1, token, payload, new_v4, now)
               added == out.memos \ voice_memos1
           IN  payload.id = None =>
                   IF out.resp.message = <<"Memo saved">>
                   THEN /\ voice_memos1 \subseteq out.memos
                        /\ Cardinality(added) = 1
                        /\ \A row \in added :
                               /\ Some(row.user_id) = Requester(token, now)
                               /\ \A m \in voice_memos1 : m.id # row.id
                               /\ out.resp.memo_id = UuidToString(row.id)
                   ELSE /\ out.memos = voice_memos1
                        /\ out.resp.memo_id = EmptyString
    /\ \A m1, m2 \in voice_memos1 : m1.id = m2.id => m1 = m2

\* C4 witness: a save_memo without an id was answered "Memo saved" and the
\* store holds the new memo beside an older one
C4_Witness ==
    /\ last.op = "save_memo"
    /\ last.id = None
    /\ last.resp.message = <<"Memo saved">>
    /\ \E m1, m2 \in voice_memos1 :
           /\ m1.id # m2.id
           /\ last.resp.memo_id = UuidToString(m1.id)
           /\ Some(m1.user_id) = last.user

\* save_memo with an id, by a registered user with a payload that passes
\* validation: what the handler does to the store.  It updates in place
\* exactly when the id resolves to a memo of the requester: the memos keep
\* their number and their ids and every other memo is as it was.  When the id
\* resolves to no stored memo (it is unknown, or no Uuid) a memo is inserted
\* under the generated id new_v4, whatever id was supplied; the insert fails,
\* leaving the store as it was, only when new_v4 is the id of a stored memo.
SaveWithIdStore(out, user, payload, new_v4) ==
    LET existing == SaveMemoExisting(voice_memos1, payload)
        owned == IsSome(existing) /\ Some(Unwrap(existing).user_id) = user
    IN  /\ owned <=> out.resp.message = <<"Memo updated">>
        /\ owned =>
               /\ Cardinality(out.memos) = Cardinality(voice_memos1)
               /\ {m.id : m \in out.memos} = {m.id : m \in voice_memos1}
               /\ out.memos \ RowsWithId(out.memos, Unwrap(existing).id)
                      = voice_memos1 \ {Unwrap(existing)}
        /\ ~owned => voice_memos1 \subseteq out.memos
        /\ existing = None =>
               IF \E m \in voice_memos1 : m.id = new_v4
               THEN out = Outcome(MemoResponse(<<"Save failed">>, EmptyString), voice_memos1)
               ELSE /\ out.resp = MemoResponse(<<"Memo saved">>, UuidToString(new_v4))
                    /\ Cardinality(out.memos \ voice_memos1) = 1
                    /\ \A row \in out.memos \ voice_memos1 :
                           row.id = new_v4 /\ Some(row.user_id) = user

\* the memo_id of the response to an in-place update names the Uuid of the
\* supplied id, in the text Uuid::to_string prints
SaveWithIdReturnsCanonical(out, payload) ==
    out.resp.message = <<"Memo updated">> =>
        /\ ParseUuid(out.resp.memo_id) = ParseUuid(Unwrap(payload.id))
        /\ out.resp.memo_id = UuidToString(Unwrap(ParseUuid(Unwrap(payload.id))))

\* the memo_id of the response to an in-place update is the supplied id
SaveWithIdReturnsSupplied(out, payload) ==
    out.resp.message = <<"Memo updated">> => out.resp.memo_id = Unwrap(payload.id)

\* the payloads with an id that pass save_memo's validation
SaveInputsWithId == {p \in SaveInputs : IsSome(p.id) /\ ValidMemoInput(p)}

\* C5: save_memo with an id (by a registered user, title and duration not
\* blank) updates in place if and only if the id resolves to an existing memo
\* owned by the requester: the number of memos is unchanged and the returned
\* memo_id is the lower-case hyphenated text of the Uuid the supplied id
\* parses to.  When the supplied id resolves to no existing memo (unknown, or
\* not a valid Uuid) a new memo is inserted under the generated id rather
\* than the supplied one.
C5_SaveWithId ==
    \A token \in Tokens(users), now \in Clock :
        Registered(users, token, now) =>
            \A payload \in SaveInputsWithId, new_v4 \in Uuids :
                LET out == save_memo(users, voice_memos1, token, payload, new_v4, now)
                IN  /\ SaveWithIdStore(out, Requester(token, now), payload, new_v4)
                    /\ SaveWithIdReturnsCanonical(out, payload)

\* C5 with the returned memo_id read as the text supplied: the same, the
\* returned memo_id equal to the supplied id
C5_ReturnedIdEqualsSupplied ==
    \A token \in Tokens(users), now \in Clock :
        Registered(users, token, now) =>
            \A payload \in SaveInputsWithId, new_v4 \in Uuids :
                LET out == save_memo(users, voice_memos1, token, payload, new_v4, now)
                IN  /\ SaveWithIdStore(out, Requester(token, now), payload, new_v4)
                    /\ SaveWithIdReturnsSupplied(out, payload)

\* C5 witness: a save_memo whose id is an upper-case text of the Uuid of the
\* requester's memo updated it and answered with the lower-case text
C5_Witness ==
    /\ last.op = "save_memo"
    /\ IsSome(last.id)
    /\ last.resp.message = <<"Memo updated">>
    /\ last.resp.memo_id # Unwrap(last.id)
    /\ ParseUuid(last.resp.memo_id) = ParseUuid(Unwrap(last.id))

\* the payloads whose title or duration is empty after trimming, with no id
\* and with each id
BlankInputs ==
    UNION {{BlankTitleInput(id), BlankDurationInput(id),
            [PlainInput(id) EXCEPT !.title = EmptyString],
            [SummaryInput(id) EXCEPT !.duration = Str(" ")]} : id \in SaveIds}

\* the payload carries no id, or the id of a memo the requester owns
NoIdOrOwnMemo(own, payload) ==
    \/ payload.id = None
    \/ \E m \in own : ParseUuid(Unwrap(payload.id)) = Some(m.id)

\* C6: save_memo whose title or duration is empty after trimming fails with
\* the validation error "Title and duration are required" and leaves the memo
\* store unchanged, both when no id is given and when the id names a memo
\* owned by the requester.
C6_BlankTitleOrDurationRejected ==
    \A token \in Tokens(users), now \in Clock :
        Registered(users, token, now) =>
            LET own == OwnMemos(voice_memos1, token, now) IN
            \A payload \in BlankInputs :
                NoIdOrOwnMemo(own, payload) =>
                    \A new_v4 \in Uuids :
                        save_memo(users, voice_memos1, token, payload, new_v4, now)
                            = Outcome(MemoResponse(<<"Title and duration are required">>,
                                                   EmptyString),
                                      voice_memos1)

\* C6 witness: a save_memo naming a memo of the requester was answered with
\* the validation error, the memo still stored
C6_Witness ==
    /\ last.op = "save_memo"
    /\ last.resp = MemoResponse(<<"Title and duration are required">>, EmptyString)
    /\ IsSome(last.user)
    /\ IsSome(Target(last))
    /\ \E m \in voice_memos1 : m.id = Unwrap(Target(last)) /\ m.user_id = Unwrap(last.user)

\* C7: for a memo owned by the requester, the first delete_memo reports
\* success ("Memo deleted") and removes exactly that memo; a second delete_memo
\* of the same id by the same user reports "Memo not found or access denied"
\* and changes nothing.
C7_DeleteTwice ==
    [][ /\ (/\ last'.op = "delete_memo"
            /\ IsSome(last'.user)
            /\ IsSome(Target(last'))
            /\ \E m \in voice_memos1 :
                   m.id = Unwrap(Target(last')) /\ m.user_id = Unwrap(last'.user))
               => /\ last'.resp = MemoResponse(<<"Memo deleted">>, Unwrap(last'.id))
                  /\ voice_memos1' = voice_memos1 \ RowsWithId(voice_memos1, Unwrap(Target(last')))
                  /\ Cardinality(voice_memos1') = Cardinality(voice_memos1) - 1
        /\ (last'.op = "delete_memo" /\ last'.again)
               => /\ last'.resp = MemoResponse(NotFoundMsg, EmptyString)
                  /\ voice_memos1' = voice_memos1
      ]_vars

\* C7 witness: a delete_memo that followed a successful delete_memo of the
\* same memo by the same user was answered "not found"
C7_Witness ==
    /\ last.op = "delete_memo"
    /\ last.again
    /\ last.resp.message = NotFoundMsg

\* C8: delete_all_memos by user U removes every memo owned by U and no memo of
\* any other user, and reports a count equal to the number of memos U owned
\* immediately before; when U owns no memo it succeeds with count 0.
C8_DeleteAllOwnOnly ==
    \A token \in Tokens(users), now \in Clock :
        IsSome(Requester(token, now)) =>
            LET out == delete_all_memos(voice_memos1, token, now)
                own == OwnMemos(voice_memos1, token, now)
            IN  /\ out.memos = voice_memos1 \ own
                /\ out.resp = MemoResponse(<<"Deleted {} memo(s)", Cardinality(own)>>, EmptyString)
                /\ own = {} => out = Outcome(MemoResponse(<<"Deleted {} memo(s)", 0>>, EmptyString),
                                             voice_memos1)

\* C8 witness: delete_all_memos removed the memos of its user, more than
\* none, and the memos of another user are still stored
C8_Witness ==
    /\ last.op = "delete_all_memos"
    /\ IsSome(last.user)
    /\ last.resp.message[1] = "Deleted {} memo(s)"
    /\ last.resp.message[2] > 0
    /\ voice_memos1 # {}
    /\ \A m \in voice_memos1 : m.user_id # Unwrap(last.user)

\* the fields of a memo a partial update may carry, and the others
PayloadFields == {"title", "transcript", "translate", "summary", "tags"}
OtherFields == {"id", "user_id", "audio_blob", "duration", "created_at"}

\* the value update_memo stores for a field the payload carries
StoredFor(field, value, stored) ==
    CASE field = "title" -> IF Trim(value) = EmptyString THEN stored ELSE value
      [] field = "tags"  -> Some(<<"[">> \o JsonJoin(value) \o <<"]">>)
      [] OTHER           -> IF Trim(value) = EmptyString THEN None ELSE Some(value)

\* C9: update_memo changes exactly the fields present in the partial payload:
\* every field absent from the payload keeps its stored value, every other
\* memo is as it was, a present field takes the payload's value (a blank title
\* is ignored, a blank text is stored as absent), and a present tags list,
\* the empty list included, replaces the stored tags with that list, so that
\* a read after the update returns that list and not absent tags.
C9_UpdateChangesPresentFields ==
    \A token \in IssuedTokens(users), payload \in FieldUpdates, now \in Clock :
        \A m \in OwnMemos(voice_memos1, token, now) :
            LET out == update_memo(voice_memos1, token, UuidToString(m.id), payload, now)
                after == RowsWithId(out.memos, m.id)
            IN  /\ out.resp = MemoResponse(<<"Memo updated successfully">>, UuidToString(m.id))
                /\ Cardinality(after) = 1
                /\ out.memos \ after = voice_memos1 \ {m}
                /\ \A r \in after :
                       /\ \A f \in OtherFields : r[f] = m[f]
                       /\ \A f \in PayloadFields :
                              IF payload[f] = None THEN r[f] = m[f]
                              ELSE r[f] = StoredFor(f, Unwrap(payload[f]), m[f])
                       /\ IsSome(payload.tags) =>
                              /\ MemoOutput(r).tags = payload.tags
                              /\ get_memo_by_id(out.memos, token, UuidToString(m.id), now).memo
                                     = Some(MemoOutput(r))
                              /\ \A resp \in get_memos(out.memos, token, now) :
                                     \A i \in 1..Len(resp) :
                                         resp[i].id = UuidToString(m.id) => resp[i].tags = payload.tags

\* C9 witness: a read after an update_memo with tags: [] returned the memo
\* with an empty tags list, the title and the transcript as they were saved
C9_Witness ==
    /\ last.op = "get_memo_by_id"
    /\ last.resp.status = 200
    /\ Unwrap(last.resp.memo).tags = Some(<<>>)
    /\ Unwrap(last.resp.memo).title = Str("a")
    /\ Unwrap(last.resp.memo).transcript = Some(Str("x"))

\* C10: in every reachable state, get_memos for a user with a valid token
\* returns exactly the memos stored with that user's id, each once, with the
\* id the server generated for it, and none of any other user; it returns the
\* one memo of a user who saved one, and the empty list once the user owns no
\* memo.
C10_GetMemosExactlyOwn ==
    \A token \in Tokens(users), now \in Clock :
        IsSome(Requester(token, now)) =>
            LET own == OwnMemos(voice_memos1, token, now) IN
            /\ get_memos(voice_memos1, token, now) # {}
            /\ \A resp \in get_memos(voice_memos1, token, now) :
                   /\ Len(resp) = Cardinality(own)
                   /\ {resp[i] : i \in 1..Len(resp)} = {MemoOutput(m) : m \in own}
                   /\ {resp[i].id : i \in 1..Len(resp)} = {UuidToString(m.id) : m \in own}
                   /\ own = {} => resp = <<>>

\* C10 witness: get_memos returned the one memo its user owns, with the id it
\* is stored under, while a memo of another user is stored
C10_Witness ==
    /\ last.op = "get_memos"
    /\ IsSome(last.user)
    /\ Len(last.resp) = 1
    /\ \E m \in voice_memos1 :
           m.user_id = Unwrap(last.user) /\ last.resp = <<MemoOutput(m)>>
    /\ \E m \in voice_memos1 : m.user_id # Unwrap(last.user)

\* the credential records of a user
KeysOf(table, user_id) == {r \in table : r.user_id = user_id}

\* the step served a request of the handler op, made with the token of a
\* registered user, and answered it with 200
ServedOk(op) ==
    /\ last'.op = op
    /\ last'.resp.status = 200
    /\ IsSome(last'.user)
    /\ \E u \in users : u.id = Unwrap(last'.user)

\* C11: a save_api_keys of a user who has a credential record replaces, in
\* that record, each key the payload supplies by a ciphertext of the supplied
\* value, keeps the stored value of a key the payload leaves out and keeps
\* helper_status, id and owner; a save_api_keys of a user who has no record
\* inserts one record of that user with helper_status false and the supplied
\* keys (absent where the payload has none).  No other record changes.
C11_SaveApiKeysFrame ==
    [][ ServedOk("save_api_keys") =>
            LET user_id == Unwrap(last'.user)
                payload == Unwrap(last'.payload)
                before == KeysOf(helper_app, user_id)
                after == KeysOf(helper_app', user_id)
            IN  /\ helper_app' \ after = helper_app \ before
                /\ Cardinality(after) = 1
                /\ \A n \in after :
                       IF before = {}
                       THEN /\ n.helper_status = FALSE
                            /\ DecryptOpt(n.gemini_key) = payload.gemini_api_key
                            /\ DecryptOpt(n.elevenlabs_key) = payload.elevenlabs_api_key
                       ELSE \A r \in before :
                            /\ n.id = r.id
                            /\ n.helper_status = r.helper_status
                            /\ IF payload.gemini_api_key = None
                               THEN n.gemini_key = r.gemini_key
                               ELSE DecryptOpt(n.gemini_key) = payload.gemini_api_key
                            /\ IF payload.elevenlabs_api_key = None
                               THEN n.elevenlabs_key = r.elevenlabs_key
                               ELSE DecryptOpt(n.elevenlabs_key) = payload.elevenlabs_api_key
      ]_vars

\* a save_api_keys that supplied the elevenlabs key alone was served to a
\* user whose record keeps a gemini key and a helper_status of true
C11_Witness ==
    /\ last.op = "save_api_keys"
    /\ last.resp.status = 200
    /\ last.payload = Some(ApiKeysPayload(None, Some(Str("e"))))
    /\ \E r \in KeysOf(helper_app, Unwrap(last.user)) :
           /\ DecryptOpt(r.gemini_key) = Some(Str("g"))
           /\ DecryptOpt(r.elevenlabs_key) = Some(Str("e"))
           /\ r.helper_status = TRUE

\* what get_api_keys answers to a registered user
AnswersOfGetApiKeys(userTable, table, user) ==
    UNION {get_api_keys(userTable, table, IssueToken(user, 150000), now) : now \in Clock}

KeysRetrieved(gemini_api_key, elevenlabs_api_key) ==
    Reply(200, Some(ApiKeyResponse(gemini_api_key, elevenlabs_api_key,
                                   <<"API keys retrieved successfully">>)))

\* C12: once a user's save_api_keys of a gemini key k has succeeded and the
\* user's record holds no elevenlabs key, get_api_keys answers that user with
\* gemini_api_key = k in plaintext and elevenlabs_api_key absent; once the
\* user's delete_gemini_key has succeeded, get_api_keys still succeeds and
\* carries no gemini key (nor an elevenlabs key when none is stored); and no
\* step other than the user's own save_api_keys, delete_gemini_key and
\* delete_elevenlabs_key changes what get_api_keys answers a user who has a
\* record.
C12_GetAfterSaveAndDelete ==
    [][ /\ \A u \in users' :
               LET answers == AnswersOfGetApiKeys(users', helper_app', u)
                   record == KeysOf(helper_app', u.id)
               IN  /\ (/\ ServedOk("save_api_keys")
                       /\ last'.user = Some(u.id)
                       /\ IsSome(Unwrap(last'.payload).gemini_api_key)
                       /\ \A r \in record : r.elevenlabs_key = None)
                          => answers = {KeysRetrieved(Unwrap(last'.payload).gemini_api_key, None)}
                   /\ (ServedOk("delete_gemini_key") /\ last'.user = Some(u.id))
                          => /\ \A a \in answers :
                                    a.status = 200 /\ Unwrap(a.body).gemini_api_key = None
                             /\ (\A r \in record : r.elevenlabs_key = None)
                                    => answers = {KeysRetrieved(None, None)}
        /\ \A u \in users :
               (/\ KeysOf(helper_app, u.id) # {}
                /\ ~(/\ last'.op \in {"save_api_keys", "delete_gemini_key",
                                       "delete_elevenlabs_key"}
                     /\ last'.user = Some(u.id)))
                   => AnswersOfGetApiKeys(users', helper_app', u)
                          = AnswersOfGetApiKeys(users, helper_app, u)
      ]_vars

\* get_api_keys answered a user with the gemini key "h" in plaintext and no
\* elevenlabs key, and the user's record was created by save_api_keys
C12_Witness ==
    /\ last.op = "get_api_keys"
    /\ last.resp = KeysRetrieved(Some(Str("h")), None)
    /\ \E r \in KeysOf(helper_app, Unwrap(last.user)) :
           r.action = "api_keys_save" /\ r.elevenlabs_key = None

\* get_api_keys answered with both keys absent a user whose record was
\* created by save_api_keys and holds no key
GetAfterDeleteServed ==
    /\ last.op = "get_api_keys"
    /\ last.resp = KeysRetrieved(None, None)
    /\ \E r \in KeysOf(helper_app, Unwrap(last.user)) : r.action = "api_keys_save"

\* the key column a delete handler clears
ClearedColumn(op) == IF op = "delete_gemini_key" THEN "gemini_key" ELSE "elevenlabs_key"

\* C13: delete_gemini_key / delete_elevenlabs_key of a user who has a record
\* succeeds and sets the selected key of that record to absent, every other
\* column (the other key and helper_status among them) and every other
\* record staying as it was, so the record continues to exist; of a user who
\* has no record it answers 404 NotFound and leaves the table as it was.
C13_DeleteKeyFrame ==
    [][ (/\ last'.op \in {"delete_gemini_key", "delete_elevenlabs_key"}
         /\ IsSome(last'.user)
         /\ \E u \in users : u.id = Unwrap(last'.user))
            => LET before == KeysOf(helper_app, Unwrap(last'.user)) IN
               IF before = {}
               THEN /\ last'.resp = Reply(404, Some(<<"API key record not found for user.">>))
                    /\ helper_app' = helper_app
               ELSE /\ last'.resp.status = 200
                    /\ helper_app' =
                           (helper_app \ before)
                           \cup {[r EXCEPT ![ClearedColumn(last'.op)] = None] : r \in before}
      ]_vars

\* delete_gemini_key was served to a user whose record keeps an elevenlabs
\* key and a helper_status of true
C13_Witness ==
    /\ last.op = "delete_gemini_key"
    /\ last.resp.status = 200
    /\ \E r \in KeysOf(helper_app, Unwrap(last.user)) :
           /\ r.gemini_key = None
           /\ DecryptOpt(r.elevenlabs_key) = Some(Str("e"))
           /\ r.helper_status = TRUE

\* delete_elevenlabs_key was answered NotFound
DeleteWithoutRecordServed ==
    /\ last.op = "delete_elevenlabs_key"
    /\ last.resp.status = 404

\* what get_helper_status answers to a registered user
AnswersOfGetHelperStatus(userTable, table, user) ==
    UNION {get_helper_status(userTable, table, IssueToken(user, 150000), now) : now \in Clock}

\* the flags those answers carry
StatusAnswered(userTable, table, user) ==
    {IF a.status = 200 THEN Some(Unwrap(a.body).status) ELSE None
        : a \in AnswersOfGetHelperStatus(userTable, table, user)}

\* C14: get_helper_status answers a user who has no record with 200 and
\* status false; right after the user's successful update_helper_status it
\* answers with the status of that request, and no step other than the
\* user's own update_helper_status changes the status it answers (so a
\* record created by save_api_keys reads false until the flag is set).
\* update_helper_status of a user without a record creates one record with
\* the requested status and no keys; with a record it changes helper_status
\* alone, the stored keys staying as they were.
C14_HelperStatus ==
    [][ /\ \A u \in users' :
               /\ KeysOf(helper_app', u.id) = {}
                      => StatusAnswered(users', helper_app', u) = {Some(FALSE)}
               /\ (ServedOk("update_helper_status") /\ last'.user = Some(u.id))
                      => StatusAnswered(users', helper_app', u)
                             = {Some(Unwrap(last'.payload).status)}
        /\ \A u \in users :
               ~(last'.op = "update_helper_status" /\ last'.user = Some(u.id))
                   => StatusAnswered(users', helper_app', u) = StatusAnswered(users, helper_app, u)
        /\ ServedOk("update_helper_status")
               => LET user_id == Unwrap(last'.user)
                      status == Unwrap(last'.payload).status
                      before == KeysOf(helper_app, user_id)
                      after == KeysOf(helper_app', user_id)
                  IN  /\ helper_app' \ after = helper_app \ before
                      /\ IF before = {}
                         THEN /\ Cardinality(after) = 1
                              /\ \A n \in after : /\ n.helper_status = status
                                                  /\ n.gemini_key = None
                                                  /\ n.elevenlabs_key = None
                         ELSE after = {[r EXCEPT !.helper_status = status] : r \in before}
      ]_vars

\* get_helper_status answered true to a user whose record was created by
\* save_api_keys and still holds its gemini key
C14_Witness ==
    /\ last.op = "get_helper_status"
    /\ last.resp = Reply(200, Some(HelperStatusResponse(
                                       TRUE, <<"Helper status retrieved successfully">>)))
    /\ \E r \in KeysOf(helper_app, Unwrap(last.user)) :
           r.action = "api_keys_save" /\ DecryptOpt(r.gemini_key) = Some(Str("g"))

\* get_helper_status answered the default to a user without a record
DefaultStatusServed ==
    /\ last.op = "get_helper_status"
    /\ last.resp.status = 200
    /\ IsSome(last.user)
    /\ Unwrap(last.resp.body).message = <<"No helper record found; returning default status.">>

\* plaintexts and nonces encrypt is applied to
KeyPlaintexts == {EmptyString, Str("g"), Str("h"), Str("e"), <<"g", "h">>}
KeyNonces == {1, 2, 3}

\* the ciphertext tokens stored in the table
StoredTokens(table) ==
    {Unwrap(r.gemini_key) : r \in {x \in table : IsSome(x.gemini_key)}}
    \cup {Unwrap(r.elevenlabs_key) : r \in {x \in table : IsSome(x.elevenlabs_key)}}

\* C20: decrypt gives back the plaintext of every token encrypt returns, for
\* every plaintext and every nonce; two calls of encrypt on the same
\* plaintext return the same token only if generate_nonce gave both the same
\* nonce; and every token the handlers stored decrypts to a plaintext.
C20_EncryptDecrypt ==
    /\ \A p \in KeyPlaintexts, n \in KeyNonces :
           /\ IsSome(encrypt(p, n))
           /\ decrypt(Unwrap(encrypt(p, n))) = Some(p)
    /\ \A p \in KeyPlaintexts, n1 \in KeyNonces, n2 \in KeyNonces :
           n1 # n2 => encrypt(p, n1) # encrypt(p, n2)
    /\ \A c \in StoredTokens(helper_app) :
           IsSome(decrypt(c)) /\ Unwrap(decrypt(c)) \in KeyPlaintexts

\* two users stored the gemini key "g": the two tokens differ and
\* get_api_keys gave the plaintext back
C20_Witness ==
    /\ last.op = "get_api_keys"
    /\ last.resp = KeysRetrieved(Some(Str("g")), None)
    /\ \E r1 \in helper_app, r2 \in helper_app :
           /\ r1.gemini_key # r2.gemini_key
           /\ DecryptOpt(r1.gemini_key) = Some(Str("g"))
           /\ DecryptOpt(r2.gemini_key) = Some(Str("g"))

\* C15: in every state the concurrent save_api_keys and update_helper_status
\* requests of a user can reach, the user owns at most one credential
\* record.
C15_AtMostOneRecordPerUser ==
    \A u \in users : Cardinality(KeysOf(helper_app, u.id)) <= 1

\* the step answered a signup whose payload passes validate: no request
\* entered pending, so the step refused a request at its lookup or wrote
SignupAnswered ==
    /\ pending' \subseteq pending
    /\ last'.op = "signup"
    /\ ValidSignup(Unwrap(last'.payload))

SignupConflictServed ==
    /\ last.op = "signup"
    /\ last.resp.status = 409
    /\ \E u \in users : u.email = Unwrap(last.payload).email

\* the step verified a token
Verified == last.op = "get_user_from_token"

\* the user login issued a token to
IssuedTo(token) == {u \in users : \E t \in LoginClock : IssueToken(u, t) = token}

MemoOps ==
    {"save_memo", "get_memos", "get_memo_by_id", "update_memo", "delete_memo",
     "delete_all_memos"}

\* the request served last carried a token that verifies and whose subject
\* is a Uuid no row of users has
NamesNoUser(served) ==
    /\ IsSome(served.user)
    /\ \A u \in users : u.id # Unwrap(served.user)

\* the answer of the request served last is one its handler gives only after
\* a statement on voice_memos1: the outcome of a lookup, update or delete
AnsweredFromMemoStore(served) ==
    \/ /\ served.op = "get_memo_by_id"
       /\ served.resp.status \in {200, 404}
    \/ /\ served.op \in {"save_memo", "update_memo", "delete_memo", "delete_all_memos"}
       /\ \/ served.resp.message = NotFoundMsg
          \/ served.resp.message[1] \in
                 {"Memo saved", "Memo updated", "Unauthorized", "Memo updated successfully",
                  "Failed to update memo", "Memo deleted", "Deleted {} memo(s)"}

\* C18: a memo operation whose token verifies but names no user of the user
\* table is answered without touching the memo store: the user is loaded
\* before the operation is dispatched.
C18_UserLoadedBeforeDispatch ==
    (last.op \in MemoOps /\ NamesNoUser(last)) => ~AnsweredFromMemoStore(last)

\* save_memo answered a token that names no user with "User {} not found"
SaveMemoLoadsUser ==
    (last.op = "save_memo" /\ NamesNoUser(last))
        => last.resp = MemoResponse(<<"User {} not found", Unwrap(last.user)>>, EmptyString)

\* the token of the request served last failed verification, or its subject
\* is no Uuid
TokenFailed(served) == served.op \in MemoOps /\ served.user = None

\* the answer of the request served last is none of the answers its handler
\* gives on success
DistinguishableFromSuccess(served) ==
    IF served.op = "get_memos"
    THEN \A tok \in IssuedTokens(users), now \in Clock :
             served.resp \notin get_memos(voice_memos1, tok, now)
    ELSE IF served.op = "get_memo_by_id"
    THEN served.resp.status # 200
    ELSE served.resp.message[1] \notin
             {"Memo saved", "Memo updated", "Memo updated successfully", "Memo deleted",
              "Deleted {} memo(s)"}

\* C19: a memo operation called with a token that fails verification (bad
\* signature, expired, subject that is no Uuid) is answered with an outcome
\* that differs from every success response of that operation.
C19_FailedTokenDistinguishable ==
    TokenFailed(last) => DistinguishableFromSuccess(last)

\* the same for every memo operation but get_memos
FailedTokenDistinguishableButGetMemos ==
    (TokenFailed(last) /\ last.op # "get_memos") => DistinguishableFromSuccess(last)

\* a request whose token fails verification changes no table
FailedTokenChangesNothing ==
    [][ (TokenFailed(last') /\ last' # last)
            => (users' = users /\ voice_memos1' = voice_memos1 /\ helper_app' = helper_app)
      ]_vars

OptionalTexts == {"transcript", "translate", "summary"}

\* C21: no stored memo has a transcript, translate or summary that is
\* present but empty after trimming.
C21_NoBlankOptionalText ==
    \A m \in voice_memos1 : \A f \in OptionalTexts :
        IsSome(m[f]) => ~IsBlank(Unwrap(m[f]))

\* a save_memo was served and a memo is stored with its transcript and
\* without a summary: every save_memo payload carries a summary, the blank
\* one was stored as absent
C21_Witness ==
    /\ last.op = "save_memo"
    /\ last.resp.message \in {<<"Memo saved">>, <<"Memo updated">>}
    /\ \E m \in voice_memos1 :
           /\ UuidToString(m.id) = last.resp.memo_id
           /\ m.summary = None
           /\ m.transcript = Some(Str("x"))

\* strings that are empty after trimming
BlankTexts == {EmptyString, Str(" "), <<" ", " ">>}

\* the partial payload that carries one field
OnlyField(field, value) ==
    [f \in PayloadFields |-> IF f = field THEN Some(value) ELSE None]

\* C22: an update_memo of an own memo whose title is empty after trimming
\* succeeds, leaves the stored title as it was and still stores the
\* transcript and the summary the payload carries; an update_memo that
\* carries a transcript, translate or summary that is empty after trimming
\* sets that stored field to absent and leaves every other field as it was.
C22_BlankTitleIgnoredBlankTextCleared ==
    \A token \in IssuedTokens(users), now \in Clock :
        \A m \in OwnMemos(voice_memos1, token, now) : \A b \in BlankTexts :
            /\ \A tr \in {None, Some(Str("y"))}, su \in {None, Some(Str("s"))} :
                   LET out == update_memo(voice_memos1, token, UuidToString(m.id),
                                          MemoUpdate(Some(b), tr, None, su, None), now)
                   IN  /\ out.resp.message = <<"Memo updated successfully">>
                       /\ out.memos =
                              (voice_memos1 \ {m})
                              \cup {[m EXCEPT !.transcript = IF tr = None THEN @ ELSE tr,
                                              !.summary = IF su = None THEN @ ELSE su]}
            /\ \A f \in OptionalTexts :
                   LET out == update_memo(voice_memos1, token, UuidToString(m.id),
                                          OnlyField(f, b), now)
                   IN  /\ out.resp.message = <<"Memo updated successfully">>
                       /\ out.memos = (voice_memos1 \ {m}) \cup {[m EXCEPT ![f] = None]}

\* an update_memo was served and left the memo, saved with a transcript,
\* without one, its translate and summary present
C22_Witness ==
    /\ last.op = "update_memo"
    /\ last.resp.message = <<"Memo updated successfully">>
    /\ \E m \in voice_memos1 :
           /\ m.transcript = None
           /\ m.translate = Some(Str("t"))
           /\ m.summary = Some(Str("s"))
           /\ m.title = Str("a")

\* save_memo payloads with the id of a memo: every optional field present,
\* blank or missing
SaveOverInputs(id) ==
    {MemoInput(Some(id), Str("b"), tr, tl, su, ta, Str("7"), blob) :
        tr \in {None, Some(Str("y")), Some(Str(" "))},
        tl \in {None, Some(Str("t"))},
        su \in {None, Some(Str("s"))},
        ta \in {None, Some(<<>>), Some(<<Str("k"), Str("l")>>)},
        blob \in {None, Some(<<3>>)}}

\* the text save_memo stores for an optional text of the payload
SavedText(value) ==
    IF value = None \/ Trim(Unwrap(value)) = EmptyString THEN None ELSE value

\* C23: save_memo with the id of a memo the requester owns answers "Memo
\* updated" and leaves exactly that memo changed: title and duration are the
\* payload's, transcript, translate and summary are the payload's (absent
\* when missing from the payload or blank), tags are the payload's list
\* (absent when missing), audio_blob is the payload's when it carries one
\* and the stored one otherwise, and id, user_id and created_at are as they
\* were.
C23_SaveWithIdOverwrites ==
    \A token \in IssuedTokens(users), now \in Clock :
        \A m \in OwnMemos(voice_memos1, token, now) :
            \A payload \in SaveOverInputs(UuidToString(m.id)), new_v4 \in Uuids :
                LET out == save_memo(users, voice_memos1, token, payload, new_v4, now)
                    after == RowsWithId(out.memos, m.id)
                IN  /\ out.resp.message = <<"Memo updated">>
                    /\ Cardinality(after) = 1
                    /\ out.memos \ after = voice_memos1 \ {m}
                    /\ \A r \in after :
                           /\ r.id = m.id /\ r.user_id = m.user_id /\ r.created_at = m.created_at
                           /\ r.title = payload.title
                           /\ r.duration = payload.duration
                           /\ \A f \in OptionalTexts : r[f] = SavedText(payload[f])
                           /\ MemoOutput(r).tags = payload.tags
                           /\ (payload.tags = None) = (r.tags = None)
                           /\ r.audio_blob = IF payload.audio_blob = None THEN m.audio_blob
                                             ELSE payload.audio_blob

\* a save_memo with the id of the memo and without transcript, tags and blob
\* was served: the memo has the payload's title, duration and summary, no
\* transcript, no tags, and the audio blob it was first saved with
C23_Witness ==
    /\ last.op = "save_memo"
    /\ last.resp.message = <<"Memo updated">>
    /\ \E m \in voice_memos1 :
           /\ UuidToString(m.id) = last.resp.memo_id
           /\ m.title = Str("b")
           /\ m.duration = Str("7")
           /\ m.summary = Some(Str("s"))
           /\ m.transcript = None
           /\ m.tags = None
           /\ m.audio_blob = Some(Blob)

\* the request served last is a generation request
GenerationServed == last.op \in GenerationOps

\* the plaintext gemini keys the decryption of the records of a user gives
GeminiKeysOf(table, user_id) ==
    {Unwrap(DecryptOpt(r.gemini_key)) :
        r \in {x \in KeysOf(table, user_id) : IsSome(DecryptOpt(x.gemini_key))}}

\* stored values decrypt refuses: no base64, shorter than a nonce, sealed
\* under another key, sealed under another nonce
UndecryptableKeys ==
    {Str("z"),
     Base64Encode(<<1, 2>>),
     Base64Encode(NonceBytes(1) \o AesGcmSeal("another key", NonceBytes(1), AsBytes(Str("g")))),
     Base64Encode(NonceBytes(1) \o AesGcmSeal(ENCRYPTION_KEY, NonceBytes(2), AsBytes(Str("g"))))}

\* the answers of a generation request that ends before the upstream call
NoKeyMessages ==
    {<<"Gemini API key not found for this user">>, <<"Failed to decrypt Gemini API key">>}

\* C24: a generation request (transcribe, translate, summary, generate
\* title) sends at most one request to the generation endpoint, whatever the
\* endpoint answers, and sends it only with a gemini key decrypted from a
\* credential record of the requester; a requester without a credential
\* record, or whose stored gemini key is absent or does not decrypt, is
\* answered with a message and nothing is sent upstream.
C24_OneUpstreamCallAfterKeyLoaded ==
    /\ GenerationServed =>
           /\ Len(last.calls) <= 1
           /\ last.calls # <<>> =>
                  /\ IsSome(last.user)
                  /\ last.calls[1].key \in GeminiKeysOf(helper_app, Unwrap(last.user))
           /\ (last.calls # <<>> /\ (last.reply.kind # "json" \/ last.reply.text = None))
                  => last.resp.body[1] \in {"Transcription Error: {}", "Error: {}"}
           /\ (IsSome(last.user) /\ GeminiKeysOf(helper_app, Unwrap(last.user)) = {})
                  => /\ last.calls = <<>>
                     /\ \/ last.resp.body \in NoKeyMessages
                        \/ last.resp.body[1] = "User fetch error: {}"
           /\ (/\ IsSome(last.user)
               /\ \E u \in users : u.id = Unwrap(last.user)
               /\ KeysOf(helper_app, Unwrap(last.user)) = {})
                  => last.resp.body = <<"Gemini API key not found for this user">>
           /\ (/\ IsSome(last.user)
               /\ \E u \in users : u.id = Unwrap(last.user)
               /\ KeysOf(helper_app, Unwrap(last.user)) # {}
               /\ \A r \in KeysOf(helper_app, Unwrap(last.user)) : r.gemini_key = None)
                  => last.resp.body = <<"Failed to decrypt Gemini API key">>
    /\ \A u \in users, stored \in UndecryptableKeys, op \in GenerationOps,
          reply \in UpstreamReplies, now \in Clock :
           GeminiHandler(op, users,
                         {SaveApiKeysNewRow(u, Some(stored), None, 1, now)},
                         IssueToken(u, 150000), Str("p"), reply, now)
               = {GenOutcome(<<"Failed to decrypt Gemini API key">>, <<>>)}

\* a generation request of a user with a stored gemini key was served: one
\* request went upstream with that key, the endpoint failed, and the handler
\* answered with the error
C24_Witness ==
    /\ GenerationServed
    /\ last.reply.kind = "status"
    /\ Len(last.calls) = 1
    /\ last.calls[1].key = Str("g")
    /\ last.resp.body = <<"Error: {}", <<"Gemini API request failed: {}", Str("q")>>>>

\* a generation request of a user whose record holds no gemini key was
\* answered without an upstream call
GenerationRefusedWithoutKey ==
    /\ GenerationServed
    /\ last.calls = <<>>
    /\ last.resp.body = <<"Failed to decrypt Gemini API key">>

CredentialWrites ==
    {"save_api_keys", "delete_gemini_key", "delete_elevenlabs_key", "update_helper_status"}

\* the rows of the table that belong to other users than the requester
\* (every row when the token names nobody)
RowsOfOthers(table, requester) ==
    {r \in table : requester = None \/ r.user_id # Unwrap(requester)}

\* the answer of the request served last comes from the records of its
\* requester
AnsweredFromOwnRecords ==
    LET own == IF last.user = None THEN {} ELSE KeysOf(helper_app, Unwrap(last.user)) IN
    /\ (last.op = "get_api_keys" /\ last.resp.status = 200) =>
           \E r \in own : last.resp = KeysRetrieved(DecryptOpt(r.gemini_key),
                                                    DecryptOpt(r.elevenlabs_key))
    /\ (last.op = "get_api_keys" /\ last.resp.status = 404) => own = {}
    /\ (last.op = "get_helper_status" /\ last.resp.status = 200) =>
           IF Unwrap(last.resp.body).message = <<"Helper status retrieved successfully">>
           THEN \E r \in own : Unwrap(last.resp.body).status = r.helper_status
           ELSE own = {} /\ Unwrap(last.resp.body).status = FALSE
    /\ last.op \in GenerationOps =>
           \A i \in 1..Len(last.calls) :
               \E r \in own : DecryptOpt(r.gemini_key) = Some(last.calls[i].key)

\* C27: a save_api_keys, delete_gemini_key, delete_elevenlabs_key or
\* update_helper_status request leaves every credential record of the users
\* other than its requester as it was and creates no record for them (a
\* request whose token names nobody changes no record); get_api_keys and
\* get_helper_status answer with the keys and the flag of a record of the
\* requester, and a generation request sends upstream only a key of a record
\* of the requester.
C27_ScopedToRequester ==
    [][ /\ last'.op \in CredentialWrites =>
               RowsOfOthers(helper_app', last'.user) = RowsOfOthers(helper_app, last'.user)
        /\ last'.op \notin CredentialWrites => helper_app' = helper_app
        /\ AnsweredFromOwnRecords'
      ]_vars

\* both users store a gemini key; the first deleted its own, the second
\* user's is still stored
C27_Witness ==
    /\ last.op = "delete_gemini_key"
    /\ last.resp.status = 200
    /\ \E a \in users, b \in users :
           /\ a.email = EmailA /\ b.email = EmailB
           /\ last.user = Some(a.id)
           /\ \E r \in KeysOf(helper_app, a.id) : r.gemini_key = None
           /\ GeminiKeysOf(helper_app, b.id) = {Str("h")}

\* the first user read its keys and generated with its key while the second
\* user stores another key
OwnKeyUsedUpstream ==
    /\ last.op \in GenerationOps
    /\ Len(last.calls) = 1 /\ last.calls[1].key = Str("g")
    /\ \E b \in users : b.email = EmailB /\ GeminiKeysOf(helper_app, b.id) = {Str("h")}

\* a row with the columns of w overwritten by the values of w
Overwrite(row, w) == [c \in DOMAIN row |-> IF c \in DOMAIN w THEN w[c] ELSE row[c]]

\* the columns an update_memo payload without tags writes, with their values
UpdateMemoWrites(p) ==
    [f \in {c \in {"title", "transcript", "translate", "summary"} :
               IsSome(p[c]) /\ (c = "title" => ~IsBlank(Unwrap(p[c])))}
        |-> IF f = "title" THEN Unwrap(p[f]) ELSE SavedText(p[f])]

\* the columns a save_memo payload without tags writes over the memo of its
\* id, with their values
SaveMemoWrites(p) ==
    [c \in {"title", "duration", "transcript", "translate", "summary", "tags"}
           \cup (IF p.audio_blob = None THEN {} ELSE {"audio_blob"})
        |-> CASE c = "title" -> p.title
              [] c = "duration" -> p.duration
              [] c = "tags" -> None
              [] c = "audio_blob" -> p.audio_blob
              [] OTHER -> SavedText(p[c])]

MemoWrites(req) ==
    IF req.op = "update_memo" THEN UpdateMemoWrites(req.payload)
    ELSE SaveMemoWrites(req.payload)

\* the step is the write of the request req, in flight since its lookup
WrittenBack(req) == req \in pending /\ pending' = pending \ {req}

\* two credential writes of a user: what each sends, and the columns it
\* writes over the record of the user, with their values
CredentialWriters ==
    {[op |-> "save_api_keys", payload |-> ApiKeysPayload(g, e), nonces |-> <<2, 3>>] :
        g \in {None, Some(Str("h"))}, e \in {None, Some(Str("e"))}}
    \cup {[op |-> "update_helper_status", payload |-> HelperStatusPayload(b)] : b \in BOOLEAN}

CredentialWrite(table, user, existing_record, w, now) ==
    IF w.op = "save_api_keys"
    THEN SaveApiKeysWrite(users, table, user, existing_record, w.payload, w.nonces, 2, now)
    ELSE HelperStatusWrite(users, table, user, existing_record, w.payload, 2, now)

ColumnsWritten(w, now) ==
    IF w.op = "update_helper_status" THEN [c \in {"helper_status"} |-> w.payload.status]
    ELSE [c \in {"timestamp"}
                \cup (IF w.payload.gemini_api_key = None THEN {} ELSE {"gemini_key"})
                \cup (IF w.payload.elevenlabs_api_key = None THEN {} ELSE {"elevenlabs_key"})
             |-> CASE c = "timestamp" -> now
                   [] c = "gemini_key" -> encrypt(Unwrap(w.payload.gemini_api_key), 2)
                   [] OTHER -> encrypt(Unwrap(w.payload.elevenlabs_api_key), 3)]

\* x and y write the record rec of the user, x first; y looked the record up
\* before or after the write of x: both are answered 200 and the record
\* holds, column by column, what y wrote, else what x wrote, else what it
\* held
CredentialLastWriterWins ==
    \A user \in users, x \in CredentialWriters, y \in CredentialWriters :
        LET rec == SaveApiKeysNewRow(user, encrypt(Str("g"), 1), None, 1, 150000)
            first == CredentialWrite({rec}, user, Some(rec), x, 200000)
        IN  /\ first.resp.status = 200
            /\ first.keys = {Overwrite(rec, ColumnsWritten(x, 200000))}
            /\ \A read \in {rec} \cup first.keys :
                   LET second == CredentialWrite(first.keys, user, Some(read), y, 200001)
                   IN  /\ second.resp.status = 200
                       /\ second.keys =
                              {Overwrite(Overwrite(rec, ColumnsWritten(x, 200000)),
                                         ColumnsWritten(y, 200001))}

\* C25: when a request of the owner that looked a memo up (update_memo, or
\* save_memo with the memo's id) writes while the memo is stored, whatever
\* other requests wrote since its lookup, it is answered with success and
\* the memo holds, column by column, the value this request writes or else
\* the value stored before this write, and no other memo changes: after two
\* such requests every column holds what the later write wrote, else what
\* the earlier wrote, else the prior value.  The same holds for two
\* save_api_keys / update_helper_status requests on the credential record
\* of a user (which depends on the state through the users alone, and is
\* evaluated when they change).
C25_LastWriteWinsPerField ==
    [][ /\ \A req \in pending :
               (/\ WrittenBack(req)
                /\ IsSome(req.existing)
                /\ RowsWithId(voice_memos1, Unwrap(req.existing).id) # {})
                   => /\ last'.resp.message \in
                             {<<"Memo updated successfully">>, <<"Memo updated">>}
                      /\ voice_memos1' =
                             {IF r.id = Unwrap(req.existing).id
                              THEN Overwrite(r, MemoWrites(req)) ELSE r : r \in voice_memos1}
        /\ users' # users => CredentialLastWriterWins'
      ]_vars

\* an update_memo of title and transcript that read the memo before another
\* update_memo wrote transcript and summary was written after it: the memo
\* holds the title and transcript of the first and the summary of the second
C25_Witness ==
    /\ "req" \in DOMAIN last
    /\ last.req.payload = MemoUpdate(Some(Str("b")), Some(Str("y")), None, None, None)
    /\ Unwrap(last.req.existing).summary = None
    /\ last.resp.message = <<"Memo updated successfully">>
    /\ \E m \in voice_memos1 :
           /\ m.title = Str("b")
           /\ m.transcript = Some(Str("y"))
           /\ m.summary = Some(Str("s"))

MemoIds(memos) == {r.id : r \in memos}

\* C26: a delete_memo answered "Memo deleted" and a delete_all_memos leave
\* no memo of the deleted ids; an update_memo or a save_memo with an id that
\* read a memo before its deletion and writes after it is answered with a
\* failure and changes no memo; and a memo id enters the store only with a
\* save_memo answered "Memo saved", as the id new_v4 gave to that request,
\* never with a request that had read a memo.  So a deleted id is stored
\* again in no later state, new_v4 giving no id twice.
C26_DeletedStaysDeleted ==
    [][ /\ (last'.op = "delete_memo" /\ last'.resp.message = <<"Memo deleted">>
            /\ pending' = pending)
               => \A r \in voice_memos1' : Some(UuidToString(r.id)) # last'.id
        /\ (last'.op = "delete_all_memos" /\ last'.resp.message[1] = "Deleted {} memo(s)"
            /\ pending' = pending)
               => \A r \in voice_memos1' : Some(r.user_id) # last'.user
        /\ \A req \in pending :
               (/\ WrittenBack(req)
                /\ IsSome(req.existing)
                /\ RowsWithId(voice_memos1, Unwrap(req.existing).id) = {})
                   => /\ voice_memos1' = voice_memos1
                      /\ last'.resp.message \in {<<"Failed to update memo">>, <<"Update failed">>}
        /\ MemoIds(voice_memos1') \ MemoIds(voice_memos1) # {}
               => /\ last'.op = "save_memo"
                  /\ last'.resp.message = <<"Memo saved">>
                  /\ MemoIds(voice_memos1') \ MemoIds(voice_memos1)
                         = {id \in Uuids : UuidToString(id) = last'.resp.memo_id}
                  /\ \A req \in pending : WrittenBack(req) => req.existing = None
      ]_vars

\* an update_memo that had read the memo wrote after the memo was deleted:
\* it failed and no memo of that id is stored
C26_Witness ==
    /\ "req" \in DOMAIN last
    /\ last.op = "update_memo"
    /\ IsSome(last.req.existing)
    /\ last.resp.message = <<"Failed to update memo">>
    /\ RowsWithId(voice_memos1, Unwrap(last.req.existing).id) = {}

\* the same for a save_memo with the id of the memo: no memo is stored
\* after its write
StaleSaveFailed ==
    /\ "req" \in DOMAIN last
    /\ last.op = "save_memo"
    /\ IsSome(last.req.existing)
    /\ last.resp.message = <<"Update failed">>
    /\ voice_memos1 = {}

============================================================================
